---- MODULE Spec2Model ----
(***************************************************************************)
(* A model of doc-drift-guard's symbol resolution engine:                  *)
(*   analyzer/resolver.py  (find_symbol_in_file, resolve_import, ...)      *)
(*   analyzer/imports.py   (extract_symbols)                               *)
(*   parser/python.py      (parse_imports)                                 *)
(*   parser/markdown.py    (extract_python_blocks)                         *)
(*   cli.py                (check)                                         *)
(* Python values are modelled as follows.                                  *)
(*   - None is the string "None"; a Python str stays a string.             *)
(*   - A list is a sequence; a dict is a sequence of <<key, value>> pairs  *)
(*     in insertion order with distinct keys.                              *)
(*   - A pathlib.Path is the sequence of its components below "/"; every   *)
(*     path is absolute, and <<>> is the filesystem root "/".              *)
(*   - Resolution.confidence is 0 for 0.0 and 1 for 1.0.                   *)
(*   - An ast node is a record with the fields of every node kind; the     *)
(*     fields a kind does not have are empty.                              *)
(*   - A call that raises gives Raised(exc) in place of its return value.  *)
(***************************************************************************)
EXTENDS Integers, Sequences, FiniteSets, TLC

VARIABLES
    fs,        \* the filesystem: path -> entry (absent, file, dir or symlink)
    src_dir,   \* the sandbox root handed to resolve_import (--src)
    call,      \* the last resolver call made, with its arguments
    res,       \* the Resolution that call returned
    imports,   \* the Import statements handed to extract_symbols
    symbols,   \* what extract_symbols returned: [done, list], done once called
    doc,       \* the documentation file given to check (DOC_FILE)
    packages,  \* the --package prefixes given to check
    run,       \* the last run of check: its options, its steps and its exit
    markdown,  \* the markdown text handed to extract_code_blocks, as its lines
    extracted, \* what extract_code_blocks returned: [done, list]
    walk       \* the directory search in progress, one unit visit per step

vars == <<fs, src_dir, call, res, imports, symbols, doc, packages, run,
          markdown, extracted, walk>>

None == "None"

(***************************************************************************)
(* Bounds of the model.                                                    *)
(***************************************************************************)
\* files and symbolic links created in the tree
MaxEntries == 2
\* the deepest relative import tried (level of resolve_import)
MaxLevel == 3
\* names in one Import statement
MaxNames == 3
\* Import statements in one call of extract_symbols
MaxImports == 2
\* statements in the module body of the unit under construction
MaxBody == 2
\* compound statements nested around the first statement of that unit
MaxDepth == 2
\* fenced blocks in the documentation file
MaxBlocks == 2
\* lines of the markdown text handed to extract_code_blocks
MaxLines == 5
\* directory listings and unit visits of one directory search, more than a
\* tree can hold directories and units
MaxVisits == 13

(***************************************************************************)
(* ast nodes.                                                              *)
(***************************************************************************)
Stmt(kind, name, targets, names, body, orelse, finalbody, handlers) ==
    [kind |-> kind, name |-> name, targets |-> targets, names |-> names,
     body |-> body, orelse |-> orelse, finalbody |-> finalbody,
     handlers |-> handlers]

Pass == Stmt("Pass", None, <<>>, <<>>, <<>>, <<>>, <<>>, <<>>)

\* assignment targets: ast.Name, ast.Tuple, ast.List, ast.Starred, and
\* ast.Attribute for every other target expression
Name(id) == [t |-> "Name", id |-> id, elts |-> <<>>]
Tuple(elts) == [t |-> "Tuple", id |-> None, elts |-> elts]
List(elts) == [t |-> "List", id |-> None, elts |-> elts]
Starred(value) == [t |-> "Starred", id |-> None, elts |-> <<value>>]
Attribute(id) == [t |-> "Attribute", id |-> id, elts |-> <<>>]

\* ast.alias
Alias(name, asname) == [name |-> name, asname |-> asname]

FunctionDef(name, body) == Stmt("FunctionDef", name, <<>>, <<>>, body, <<>>, <<>>, <<>>)
AsyncFunctionDef(name, body) == Stmt("AsyncFunctionDef", name, <<>>, <<>>, body, <<>>, <<>>, <<>>)
ClassDef(name, body) == Stmt("ClassDef", name, <<>>, <<>>, body, <<>>, <<>>, <<>>)
Assign(targets) == Stmt("Assign", None, targets, <<>>, <<>>, <<>>, <<>>, <<>>)
AnnAssign(target) == Stmt("AnnAssign", None, <<target>>, <<>>, <<>>, <<>>, <<>>, <<>>)
ImportFrom(names) == Stmt("ImportFrom", None, <<>>, names, <<>>, <<>>, <<>>, <<>>)
Import(names) == Stmt("Import", None, <<>>, names, <<>>, <<>>, <<>>, <<>>)

If(body, orelse) == Stmt("If", None, <<>>, <<>>, body, orelse, <<>>, <<>>)
Try(body, handlers, orelse, finalbody) ==
    Stmt("Try", None, <<>>, <<>>, body, orelse, finalbody, handlers)
With(body) == Stmt("With", None, <<>>, <<>>, body, <<>>, <<>>, <<>>)
AsyncWith(body) == Stmt("AsyncWith", None, <<>>, <<>>, body, <<>>, <<>>, <<>>)
For(body, orelse) == Stmt("For", None, <<>>, <<>>, body, orelse, <<>>, <<>>)
AsyncFor(body, orelse) == Stmt("AsyncFor", None, <<>>, <<>>, body, orelse, <<>>, <<>>)
While(body, orelse) == Stmt("While", None, <<>>, <<>>, body, orelse, <<>>, <<>>)

\* what file_path.read_text() followed by ast.parse() gives: a module body, or
\* the exception raised (UnicodeDecodeError, SyntaxError, OSError, or the
\* MemoryError / RecursionError of a parser out of resources)
Source(body) == [status |-> "ok", body |-> body]
Failure(exc) == [status |-> exc, body |-> <<>>]

(***************************************************************************)
(* Resolution (resolver.py:8-15).                                          *)
(***************************************************************************)
Resolution(symbol, exists, location, confidence) ==
    [symbol |-> symbol, exists |-> exists, location |-> location,
     confidence |-> confidence]

\* a found result that carries the confidence of a miss
Located_unsure(symbol, file_path) == Resolution(symbol, TRUE, file_path, 0)

\* Resolution(symbol=symbol, exists=True, location=str(file_path), confidence=1.0)
Located(symbol, file_path) == Resolution(symbol, TRUE, file_path, 1)

\* Resolution(symbol=symbol, exists=False, confidence=0.0)
NotFound(symbol) == Resolution(symbol, FALSE, None, 0)

\* the call did not return: it raised the exception
Raised(exc) == [raised |-> exc]
IsRaised(r) == "raised" \in DOMAIN r

Range(seq) == {seq[i] : i \in 1..Len(seq)}

(***************************************************************************)
(* _extract_names_from_target (resolver.py:18-43).                         *)
(***************************************************************************)
RECURSIVE extract_names_from_target(_)
RECURSIVE extend_names(_, _)

\* names = []; for elt in elts: names.extend(_extract_names_from_target(elt))
extend_names(names, elts) ==
    IF elts = <<>> THEN names
    ELSE extend_names(names \o extract_names_from_target(Head(elts)), Tail(elts))

extract_names_from_target(target) ==
    IF target.t = "Name" THEN <<target.id>>
    ELSE IF target.t \in {"Tuple", "List"} THEN extend_names(<<>>, target.elts)
    ELSE IF target.t = "Starred" THEN extract_names_from_target(target.elts[1])
    ELSE <<>>

\* the name an import brought in, whatever it was renamed to
bound_name_original(alias) == alias.name

\* name = alias.asname if alias.asname else alias.name
bound_name(alias) == IF alias.asname # None THEN alias.asname ELSE alias.name

(***************************************************************************)
(* find_symbol_in_file (resolver.py:46-218).                               *)
(***************************************************************************)
\* resolver.py:65-122, one iteration of `for node in tree.body`: does the
\* top-level node return a found Resolution for symbol
top_level_defines(node, symbol) ==
    IF node.kind \in {"FunctionDef", "AsyncFunctionDef"} /\ node.name = symbol
        THEN TRUE
    ELSE IF node.kind = "ClassDef" /\ node.name = symbol
        THEN TRUE
    ELSE IF node.kind = "Assign"
        THEN \E i \in 1..Len(node.targets) :
                symbol \in Range(extract_names_from_target(node.targets[i]))
    ELSE IF node.kind = "AnnAssign"
        THEN node.targets[1].t = "Name" /\ node.targets[1].id = symbol
    ELSE IF node.kind = "ImportFrom"
        THEN \E i \in 1..Len(node.names) : bound_name(node.names[i]) = symbol
    ELSE IF node.kind = "Import"
        THEN \E i \in 1..Len(node.names) : bound_name(node.names[i]) = symbol
    ELSE FALSE

\* the nested check descending through every level of control blocks
RECURSIVE check_nested_body_deep(_, _)
check_nested_body_deep(body, symbol) ==
    \E c \in 1..Len(body) :
        \/ top_level_defines(body[c], symbol)
        \/ /\ body[c].kind \in {"If", "Try", "With", "AsyncWith", "For", "AsyncFor"}
           /\ \/ check_nested_body_deep(body[c].body, symbol)
              \/ check_nested_body_deep(body[c].orelse, symbol)
              \/ check_nested_body_deep(body[c].finalbody, symbol)
              \/ \E h \in 1..Len(body[c].handlers) :
                     check_nested_body_deep(body[c].handlers[h], symbol)

\* resolver.py:126-182, check_nested_body: TRUE when it returns a Resolution,
\* FALSE when it returns None
check_nested_body(body, symbol) ==
    \E c \in 1..Len(body) :
        LET child == body[c] IN
        IF child.kind \in {"FunctionDef", "AsyncFunctionDef"}
            THEN child.name = symbol
        ELSE IF child.kind = "ClassDef"
            THEN child.name = symbol
        ELSE IF child.kind = "Assign"
            THEN \E i \in 1..Len(child.targets) :
                    symbol \in Range(extract_names_from_target(child.targets[i]))
        ELSE IF child.kind = "AnnAssign"
            THEN child.targets[1].t = "Name" /\ child.targets[1].id = symbol
        ELSE IF child.kind = "ImportFrom"
            THEN \E i \in 1..Len(child.names) : bound_name(child.names[i]) = symbol
        ELSE IF child.kind = "Import"
            THEN \E i \in 1..Len(child.names) : bound_name(child.names[i]) = symbol
        ELSE FALSE

\* the second pass without the loop over node.handlers (resolver.py:202-205)
nested_defines_no_handlers(node, symbol) ==
    IF node.kind = "If"
        THEN check_nested_body(node.body, symbol)
             \/ check_nested_body(node.orelse, symbol)
    ELSE IF node.kind = "Try"
        THEN \/ check_nested_body(node.body, symbol)
             \/ check_nested_body(node.orelse, symbol)
             \/ check_nested_body(node.finalbody, symbol)
    ELSE IF node.kind \in {"With", "AsyncWith"}
        THEN check_nested_body(node.body, symbol)
    ELSE IF node.kind \in {"For", "AsyncFor"}
        THEN check_nested_body(node.body, symbol)
             \/ check_nested_body(node.orelse, symbol)
    ELSE FALSE

\* the second pass descending into function and class bodies as well, as a
\* walk over every node of the tree does
nested_defines_any_body(node, symbol) ==
    IF node.kind = "Try"
        THEN \/ check_nested_body(node.body, symbol)
             \/ check_nested_body(node.orelse, symbol)
             \/ check_nested_body(node.finalbody, symbol)
             \/ \E h \in 1..Len(node.handlers) :
                    check_nested_body(node.handlers[h], symbol)
    ELSE IF node.kind \in {"If", "For", "AsyncFor"}
        THEN check_nested_body(node.body, symbol)
             \/ check_nested_body(node.orelse, symbol)
    ELSE IF node.kind \in {"With", "AsyncWith", "FunctionDef", "AsyncFunctionDef",
                           "ClassDef"}
        THEN check_nested_body(node.body, symbol)
    ELSE FALSE

\* resolver.py:184-216, one iteration of the second `for node in tree.body`
nested_defines(node, symbol) ==
    IF node.kind = "If"
        THEN check_nested_body(node.body, symbol)
             \/ check_nested_body(node.orelse, symbol)
    ELSE IF node.kind = "Try"
        THEN \/ check_nested_body(node.body, symbol)
             \/ check_nested_body(node.orelse, symbol)
             \/ check_nested_body(node.finalbody, symbol)
             \/ \E h \in 1..Len(node.handlers) :
                    check_nested_body(node.handlers[h], symbol)
    ELSE IF node.kind \in {"With", "AsyncWith"}
        THEN check_nested_body(node.body, symbol)
    ELSE IF node.kind \in {"For", "AsyncFor"}
        THEN check_nested_body(node.body, symbol)
             \/ check_nested_body(node.orelse, symbol)
    ELSE FALSE

\* resolver.py:56-218 once the file has been read: source is the outcome of
\* read_text and ast.parse
find_symbol_in_source(symbol, file_path, source) ==
    IF source.status \in {"UnicodeDecodeError", "SyntaxError", "OSError"}
        THEN NotFound(symbol)
    ELSE IF source.status # "ok"
        THEN Raised(source.status)
    ELSE IF \E n \in 1..Len(source.body) : top_level_defines(source.body[n], symbol)
        THEN Located(symbol, file_path)
    ELSE IF \E n \in 1..Len(source.body) : nested_defines(source.body[n], symbol)
        THEN Located(symbol, file_path)
    ELSE NotFound(symbol)

(***************************************************************************)
(* The filesystem and pathlib.                                             *)
(***************************************************************************)
\* directories that always exist: "/", "/p" and "/p/r"
FixedDirs == {<<>>, <<"p">>, <<"p", "r">>}

\* places where a directory may be made or linked
DirSlots == {<<"p", "r", "m">>, <<"p", "m">>}

\* places where a file may be written or linked, in os.scandir order
FileOrder ==
    << <<"m.py">>, <<"p", "r.py">>, <<"p", "m.py">>, <<"p", "m", "__init__.py">>,
       <<"p", "r", "m.py">>, <<"p", "r", "n.py">>, <<"p", "r", "m", "__init__.py">> >>

FileSlots == Range(FileOrder)

FsPaths == FixedDirs \cup DirSlots \cup FileSlots

Absent == [type |-> "absent", content |-> None, target |-> None]
Dir == [type |-> "dir", content |-> None, target |-> None]
File(content) == [type |-> "file", content |-> content, target |-> None]
Symlink(target) == [type |-> "symlink", content |-> None, target |-> target]
\* a symbolic link that points to itself (ln -s x.py x.py)
Loop == [type |-> "loop", content |-> None, target |-> None]

\* os.lstat of a path
Entry(path) == IF path \in FsPaths THEN fs[path] ELSE Absent

\* PurePath.parent: the parent of "/" is "/"
parent(path) == IF path = <<>> THEN <<>> ELSE SubSeq(path, 1, Len(path) - 1)

\* PurePath.is_relative_to: other is path or one of its ancestors
is_relative_to(path, other) ==
    Len(other) <= Len(path) /\ SubSeq(path, 1, Len(other)) = other

\* Path.resolve(): follow the symbolic links along the path (link targets are
\* stored resolved); components that do not exist are kept as they are
RECURSIVE resolve_from(_, _)
resolve_from(done, rest) ==
    IF rest = <<>> THEN done
    ELSE LET next == Append(done, Head(rest)) IN
         IF Entry(next).type = "symlink"
             THEN resolve_from(Entry(next).target, Tail(rest))
             ELSE resolve_from(next, Tail(rest))

resolve(path) == resolve_from(<<>>, path)

\* Path.resolve() raises RuntimeError("Symlink loop from ...") when the path
\* runs into a symbolic link that leads back to itself
resolve_raises(path) ==
    \E k \in 1..Len(path) : Entry(resolve(SubSeq(path, 1, k))).type = "loop"

\* Path.exists(), Path.is_dir(): both follow symbolic links, and are False
\* for a link loop
exists(path) == Entry(resolve(path)).type \in {"file", "dir"}
is_dir(path) == Entry(resolve(path)).type = "dir"

\* Path.is_symlink(): lstat of the last component, below the resolved parent
is_symlink(path) ==
    /\ path # <<>>
    /\ Entry(Append(resolve(parent(path)), path[Len(path)])).type
           \in {"symlink", "loop"}

\* Path.read_text() and ast.parse(): the source of the file the path leads
\* to, or the exception raised (a directory or a missing file: OSError)
read_text(path) ==
    IF Entry(resolve(path)).type = "file"
        THEN Entry(resolve(path)).content
        ELSE Failure("OSError")

\* a component of module.split('.') inside a path: a relative piece, or an
\* absolute one (it starts with "/"), which joinpath lets replace the base
Rel(parts) == [abs |-> FALSE, parts |-> parts]
Abs(parts) == [abs |-> TRUE, parts |-> parts]

\* the module strings handed to the resolver
ModuleStrings == {"", "m", "/p/m", "../m", ".", "../.."}

\* str.split('.'): the pieces between the dots, piece being the one begun
RECURSIVE split_dots(_, _)
split_dots(string, piece) ==
    IF string = "" THEN <<piece>>
    ELSE IF Head(string) = "." THEN <<piece>> \o split_dots(Tail(string), "")
    ELSE split_dots(Tail(string), piece \o Head(string))

\* module.split('.') on those strings, and on every dotted name without "/"
module_split(module) ==
    CASE module = "" -> <<Rel(<<>>)>>
      [] module = "m" -> <<Rel(<<"m">>)>>
      [] module = "/p/m" -> <<Abs(<<"p", "m">>)>>
      [] module = "../m" -> <<Rel(<<>>), Rel(<<>>), Abs(<<"m">>)>>
      [] module = "." -> <<Rel(<<>>), Rel(<<>>)>>
      [] module = "../.." -> <<Rel(<<>>), Rel(<<>>), Abs(<<>>), Rel(<<>>), Rel(<<>>)>>
      [] OTHER ->
          LET pieces == split_dots(module, "") IN
          [i \in 1..Len(pieces) |->
              IF pieces[i] = "" THEN Rel(<<>>) ELSE Rel(<<pieces[i]>>)]

\* PurePath.joinpath(*parts): an absolute part drops everything before it
RECURSIVE joinpath(_, _)
joinpath(base, segments) ==
    IF segments = <<>> THEN base
    ELSE IF Head(segments).abs
        THEN joinpath(Head(segments).parts, Tail(segments))
        ELSE joinpath(base \o Head(segments).parts, Tail(segments))

\* PurePath.with_suffix('.py'): ValueError for a path with an empty name ("/")
with_suffix_py(path) ==
    IF path = <<>> THEN "ValueError"
    ELSE Append(parent(path), path[Len(path)] \o ".py")

(***************************************************************************)
(* find_symbol_in_file, find_symbol_in_directory (resolver.py:46-242).     *)
(***************************************************************************)
find_symbol_in_file(symbol, file_path) ==
    find_symbol_in_source(symbol, file_path, read_text(file_path))

\* src_dir.rglob("*.py"): the *.py entries below the directory, in scandir
\* order; directories that are symbolic links are not descended into
rglob_py(dir) ==
    SelectSeq(FileOrder,
        LAMBDA f :
            /\ Len(f) > Len(dir)
            /\ is_relative_to(f, dir)
            /\ fs[f].type # "absent"
            /\ \A k \in (Len(dir) + 1)..(Len(f) - 1) :
                   Entry(SubSeq(f, 1, k)).type = "dir")

\* the walk of resolver.py:235-240 that gives up at the first unit that
\* cannot be read or parsed, in place of going on to the next unit
RECURSIVE first_match_failing_fast(_, _)
first_match_failing_fast(symbol, files) ==
    IF files = <<>> THEN NotFound(symbol)
    ELSE IF is_symlink(Head(files)) THEN first_match_failing_fast(symbol, Tail(files))
    ELSE LET result == find_symbol_in_file(symbol, Head(files)) IN
         IF IsRaised(result) THEN result
         ELSE IF result.exists THEN result
         ELSE IF read_text(Head(files)).status # "ok" THEN NotFound(symbol)
         ELSE first_match_failing_fast(symbol, Tail(files))

\* the walk of resolver.py:235-240 without the test of line 236: symbolic
\* links are read like any other file
RECURSIVE first_match_with_links(_, _)
first_match_with_links(symbol, files) ==
    IF files = <<>> THEN NotFound(symbol)
    ELSE LET result == find_symbol_in_file(symbol, Head(files)) IN
         IF IsRaised(result) THEN result
         ELSE IF result.exists THEN result
         ELSE first_match_with_links(symbol, Tail(files))

\* resolver.py:235-240: the first file of the walk that is no symbolic link
\* and holds the symbol
RECURSIVE first_match(_, _)
first_match(symbol, files) ==
    IF files = <<>> THEN NotFound(symbol)
    ELSE IF is_symlink(Head(files)) THEN first_match(symbol, Tail(files))
    ELSE LET result == find_symbol_in_file(symbol, Head(files)) IN
         IF IsRaised(result) THEN result
         ELSE IF result.exists THEN result
         ELSE first_match(symbol, Tail(files))

find_symbol_in_directory(symbol, dir) ==
    IF ~exists(dir) \/ ~is_dir(dir) THEN NotFound(symbol)
    ELSE first_match(symbol, rglob_py(resolve(dir)))

(***************************************************************************)
(* resolve_import (resolver.py:245-368).                                   *)
(***************************************************************************)
\* ascend without the test of line 276: every ancestor is allowed
RECURSIVE ascend_unchecked(_, _, _)
ascend_unchecked(base_path, src_dir_resolved, steps) ==
    IF steps = 0 THEN base_path
    ELSE ascend_unchecked(parent(base_path), src_dir_resolved, steps - 1)

\* ascend with the test of line 276 made against the parent of the root: one
\* level above the root is allowed
RECURSIVE ascend_one_above(_, _, _)
ascend_one_above(base_path, src_dir_resolved, steps) ==
    IF steps = 0 THEN base_path
    ELSE LET new_path == parent(base_path) IN
         IF ~is_relative_to(new_path, parent(src_dir_resolved)) THEN "blocked"
         ELSE ascend_one_above(new_path, src_dir_resolved, steps - 1)

\* resolver.py:271-278: go up level - 1 directories from the resolved root;
\* "blocked" when a step leaves the root
RECURSIVE ascend(_, _, _)
ascend(base_path, src_dir_resolved, steps) ==
    IF steps = 0 THEN base_path
    ELSE LET new_path == parent(base_path) IN
         IF ~is_relative_to(new_path, src_dir_resolved) THEN "blocked"
         ELSE ascend(new_path, src_dir_resolved, steps - 1)

\* the relative import that goes on to the package when the module file
\* exists and lacks the symbol
resolve_relative_module_fallthrough(module, symbol, base_path) ==
    LET module_parts == module_split(module)
        module_path == with_suffix_py(joinpath(base_path, module_parts))
        package_path == joinpath(base_path, module_parts \o <<Rel(<<"__init__.py">>)>>)
    IN  IF module_path = "ValueError" THEN NotFound(symbol)
        ELSE IF exists(resolve(module_path))
                /\ find_symbol_in_file(symbol, module_path).exists
            THEN find_symbol_in_file(symbol, module_path)
        ELSE IF exists(resolve(package_path))
            THEN find_symbol_in_file(symbol, package_path)
        ELSE NotFound(symbol)

\* resolver.py:280-296: relative import that names a module
resolve_relative_module(module, symbol, base_path) ==
    LET module_parts == module_split(module)
        module_path == with_suffix_py(joinpath(base_path, module_parts))
        package_path == joinpath(base_path, module_parts \o <<Rel(<<"__init__.py">>)>>)
    IN  IF module_path = "ValueError" THEN NotFound(symbol)
        ELSE IF resolve_raises(module_path) THEN Raised("RuntimeError")
        ELSE IF exists(resolve(module_path))
            THEN find_symbol_in_file(symbol, module_path)
        ELSE IF resolve_raises(package_path) THEN Raised("RuntimeError")
        ELSE IF exists(resolve(package_path))
            THEN find_symbol_in_file(symbol, package_path)
        ELSE NotFound(symbol)

\* resolver.py:270-300: level > 0
resolve_relative(module, symbol, src_dir_resolved, level) ==
    LET base_path == ascend(src_dir_resolved, src_dir_resolved, level - 1) IN
    IF base_path = "blocked" THEN NotFound(symbol)
    ELSE IF module # "" THEN resolve_relative_module(module, symbol, base_path)
    ELSE find_symbol_in_directory(symbol, base_path)

\* the plain import that looks the module name up inside the unit
resolve_plain_searching(module, symbol, src, src_dir_resolved) ==
    LET module_parts == module_split(module)
        module_path == with_suffix_py(joinpath(src, module_parts))
        package_path == joinpath(src, module_parts \o <<Rel(<<"__init__.py">>)>>)
    IN  IF module_path = "ValueError" THEN NotFound(symbol)
        ELSE IF is_relative_to(resolve(module_path), src_dir_resolved)
                /\ exists(module_path)
            THEN find_symbol_in_file(symbol, module_path)
        ELSE IF is_relative_to(resolve(package_path), src_dir_resolved)
                /\ exists(package_path)
            THEN find_symbol_in_file(symbol, package_path)
        ELSE NotFound(symbol)

\* resolver.py:308-339: symbol == module, only the existence of the module
\* file or of the package is checked
resolve_plain(module, symbol, src, src_dir_resolved) ==
    LET module_parts == module_split(module)
        module_path == with_suffix_py(joinpath(src, module_parts))
        package_path == joinpath(src, module_parts \o <<Rel(<<"__init__.py">>)>>)
    IN  IF module_path = "ValueError" THEN NotFound(symbol)
        ELSE IF resolve_raises(module_path) THEN Raised("RuntimeError")
        ELSE IF is_relative_to(resolve(module_path), src_dir_resolved)
                /\ exists(module_path)
            THEN Located(symbol, module_path)
        ELSE IF resolve_raises(package_path) THEN Raised("RuntimeError")
        ELSE IF is_relative_to(resolve(package_path), src_dir_resolved)
                /\ exists(package_path)
            THEN Located(symbol, package_path)
        ELSE NotFound(symbol)

\* the from-import with the directory-wide fallback that P1-1 removed
\* (resolver.py:362-363, 367)
resolve_from_import_fallback(module, symbol, src, src_dir_resolved) ==
    LET module_parts == module_split(module)
        module_path == with_suffix_py(joinpath(src, module_parts))
        package_path == joinpath(src, module_parts \o <<Rel(<<"__init__.py">>)>>)
        in_unit ==
            IF /\ module_path # "ValueError"
               /\ is_relative_to(resolve(module_path), src_dir_resolved)
               /\ exists(module_path)
                THEN find_symbol_in_file(symbol, module_path)
            ELSE IF is_relative_to(resolve(package_path), src_dir_resolved)
                    /\ exists(package_path)
                THEN find_symbol_in_file(symbol, package_path)
            ELSE NotFound(symbol)
    IN  IF in_unit.exists THEN in_unit ELSE find_symbol_in_directory(symbol, src)

\* the from-import that tries the package init before the module file
resolve_from_import_package_first(module, symbol, src, src_dir_resolved) ==
    LET module_parts == module_split(module)
        module_path == with_suffix_py(joinpath(src, module_parts))
        package_path == joinpath(src, module_parts \o <<Rel(<<"__init__.py">>)>>)
    IN  IF resolve_raises(package_path) THEN Raised("RuntimeError")
        ELSE IF is_relative_to(resolve(package_path), src_dir_resolved)
                /\ exists(package_path)
            THEN find_symbol_in_file(symbol, package_path)
        ELSE IF module_path # "ValueError" /\ resolve_raises(module_path)
            THEN Raised("RuntimeError")
        ELSE IF /\ module_path # "ValueError"
                /\ is_relative_to(resolve(module_path), src_dir_resolved)
                /\ exists(module_path)
            THEN find_symbol_in_file(symbol, module_path)
        ELSE NotFound(symbol)

\* resolver.py:341-368: from-import of a symbol out of a named module
resolve_from_import(module, symbol, src, src_dir_resolved) ==
    LET module_parts == module_split(module)
        module_path == with_suffix_py(joinpath(src, module_parts))
        package_path == joinpath(src, module_parts \o <<Rel(<<"__init__.py">>)>>)
    IN  IF module_path # "ValueError" /\ resolve_raises(module_path)
            THEN Raised("RuntimeError")
        ELSE IF /\ module_path # "ValueError"
                /\ is_relative_to(resolve(module_path), src_dir_resolved)
                /\ exists(module_path)
            THEN find_symbol_in_file(symbol, module_path)
        ELSE IF resolve_raises(package_path) THEN Raised("RuntimeError")
        ELSE IF is_relative_to(resolve(package_path), src_dir_resolved)
                /\ exists(package_path)
            THEN find_symbol_in_file(symbol, package_path)
        ELSE NotFound(symbol)

\* resolve_import with a directory-wide search for an absolute import of an
\* empty module, in place of lines 303-304
resolve_import_searching(module, symbol, src, level) ==
    LET src_dir_resolved == resolve(src) IN
    IF level > 0 THEN resolve_relative(module, symbol, src_dir_resolved, level)
    ELSE IF module = "" THEN find_symbol_in_directory(symbol, src)
    ELSE IF symbol = module THEN resolve_plain(module, symbol, src, src_dir_resolved)
    ELSE resolve_from_import(module, symbol, src, src_dir_resolved)

\* resolve_import taking the existence-only shortcut at every depth
resolve_import_shortcut_any_level(module, symbol, src, level) ==
    LET src_dir_resolved == resolve(src) IN
    IF resolve_raises(src) THEN Raised("RuntimeError")
    ELSE IF module # "" /\ symbol = module
        THEN resolve_plain(module, symbol, src, src_dir_resolved)
    ELSE IF level > 0 THEN resolve_relative(module, symbol, src_dir_resolved, level)
    ELSE IF module = "" THEN NotFound(symbol)
    ELSE resolve_from_import(module, symbol, src, src_dir_resolved)

\* resolver.py:245-368
resolve_import(module, symbol, src, level) ==
    LET src_dir_resolved == resolve(src) IN
    IF resolve_raises(src) THEN Raised("RuntimeError")
    ELSE IF level > 0 THEN resolve_relative(module, symbol, src_dir_resolved, level)
    ELSE IF module = "" THEN NotFound(symbol)
    ELSE IF symbol = module THEN resolve_plain(module, symbol, src, src_dir_resolved)
    ELSE resolve_from_import(module, symbol, src, src_dir_resolved)

(***************************************************************************)
(* extract_symbols (imports.py:18-65).                                     *)
(***************************************************************************)
\* parser/python.py:8-15, the Import dataclass; aliases maps alias -> name
ImportStmt(module, names, aliases, level) ==
    [module |-> module, names |-> names, aliases |-> aliases, level |-> level]

\* imports.py:8-15
ImportedSymbol(symbol, module, alias, level) ==
    [symbol |-> symbol, module |-> module, alias |-> alias, level |-> level]

\* the first component of a dotted module path
top_level(module) == IF module = "os.path" THEN "os" ELSE module

\* imports.py:34-36: the first key of the alias dict, if it has one
first_alias(aliases) == IF Len(aliases) > 0 THEN aliases[1][1] ELSE None

\* imports.py:51-56: the first alias whose original is the name
RECURSIVE alias_of(_, _)
alias_of(name, aliases) ==
    IF aliases = <<>> THEN None
    ELSE IF Head(aliases)[2] = name THEN Head(aliases)[1]
    ELSE alias_of(name, Tail(aliases))

\* the plain import checked by its top-level package only
plain_symbol_top_level(imp) ==
    <<ImportedSymbol(top_level(imp.module), top_level(imp.module),
                     first_alias(imp.aliases), imp.level)>>

\* imports.py:31-44: a plain import (no names) is checked by its full path
plain_symbol(imp) ==
    <<ImportedSymbol(imp.module, imp.module, first_alias(imp.aliases), imp.level)>>

\* the loop over the names that takes the alias for the symbol when the
\* name has one
RECURSIVE named_symbols_by_alias(_, _)
named_symbols_by_alias(imp, names) ==
    IF names = <<>> THEN <<>>
    ELSE IF Head(names) = "*" THEN named_symbols_by_alias(imp, Tail(names))
    ELSE <<ImportedSymbol(
               IF alias_of(Head(names), imp.aliases) # None
                   THEN alias_of(Head(names), imp.aliases) ELSE Head(names),
               imp.module, alias_of(Head(names), imp.aliases), imp.level)>>
         \o named_symbols_by_alias(imp, Tail(names))

\* the loop over the names without the test of line 48
RECURSIVE named_symbols_keep_star(_, _)
named_symbols_keep_star(imp, names) ==
    IF names = <<>> THEN <<>>
    ELSE <<ImportedSymbol(Head(names), imp.module,
                          alias_of(Head(names), imp.aliases), imp.level)>>
         \o named_symbols_keep_star(imp, Tail(names))

\* imports.py:46-63: one symbol per name that is not "*"
RECURSIVE named_symbols(_, _)
named_symbols(imp, names) ==
    IF names = <<>> THEN <<>>
    ELSE IF Head(names) = "*" THEN named_symbols(imp, Tail(names))
    ELSE <<ImportedSymbol(Head(names), imp.module,
                          alias_of(Head(names), imp.aliases), imp.level)>>
         \o named_symbols(imp, Tail(names))

\* imports.py:27-65
RECURSIVE extract_symbols(_)
extract_symbols(imps) ==
    IF imps = <<>> THEN <<>>
    ELSE (IF Head(imps).names = <<>> THEN plain_symbol(Head(imps))
          ELSE named_symbols(Head(imps), Head(imps).names))
         \o extract_symbols(Tail(imps))

(***************************************************************************)
(* parse_imports (parser/python.py:25-72).  The code of a block is what    *)
(* ast.parse gives for it: a module body of import statements and of       *)
(* function definitions holding statements, or the SyntaxError raised.     *)
(***************************************************************************)
\* ast.ImportFrom and ast.Import with the fields parse_imports reads; module
\* is None for "from . import x"
ImportFromNode(module, names, level) ==
    [kind |-> "ImportFrom", module |-> module, names |-> names, level |-> level]
ImportNode(names) ==
    [kind |-> "Import", module |-> None, names |-> names, level |-> 0]

\* a function definition of the sample: def f(): <body>
DefNode(body) == [kind |-> "FunctionDef", body |-> body]

\* ast.iter_child_nodes, the statements among them
child_nodes(node) == IF node.kind = "FunctionDef" THEN node.body ELSE <<>>

\* ast.walk: todo = deque([node]); node = todo.popleft();
\* todo.extend(iter_child_nodes(node)); yield node -- breadth first
RECURSIVE ast_walk(_)
ast_walk(todo) ==
    IF todo = <<>> THEN <<>>
    ELSE <<Head(todo)>> \o ast_walk(Tail(todo) \o child_nodes(Head(todo)))

\* d[key] = value on a dict: a key already there keeps its place
dict_set(dict, key, value) ==
    IF \E i \in 1..Len(dict) : dict[i][1] = key
        THEN [i \in 1..Len(dict) |->
                 IF dict[i][1] = key THEN <<key, value>> ELSE dict[i]]
        ELSE Append(dict, <<key, value>>)

\* python.py:60-64: {alias.asname: alias.name for alias in node.names if alias.asname}
RECURSIVE alias_dict(_, _)
alias_dict(dict, names) ==
    IF names = <<>> THEN dict
    ELSE IF Head(names).asname # None
        THEN alias_dict(dict_set(dict, Head(names).asname, Head(names).name), Tail(names))
    ELSE alias_dict(dict, Tail(names))

\* python.py:48-53: one Import per alias of "import a, b as c"
RECURSIVE plain_imports(_)
plain_imports(names) ==
    IF names = <<>> THEN <<>>
    ELSE <<ImportStmt(Head(names).name, <<>>,
                      IF Head(names).asname # None
                          THEN << <<Head(names).asname, Head(names).name>> >>
                          ELSE <<>>,
                      0)>>
         \o plain_imports(Tail(names))

\* python.py:55-70
from_import(node) ==
    ImportStmt(IF node.module # None THEN node.module ELSE "",
               [i \in 1..Len(node.names) |-> node.names[i].name],
               alias_dict(<<>>, node.names),
               node.level)

\* python.py:44-70, the loop over the nodes
RECURSIVE imports_of(_)
imports_of(nodes) ==
    IF nodes = <<>> THEN <<>>
    ELSE (IF Head(nodes).kind = "Import" THEN plain_imports(Head(nodes).names)
          ELSE IF Head(nodes).kind = "ImportFrom" THEN <<from_import(Head(nodes))>>
          ELSE <<>>)
         \o imports_of(Tail(nodes))

\* python.py:37-72: the list returned, or the SyntaxError raised
Returned(value) == [value |-> value]

parse_imports(code) ==
    IF code.status # "ok" THEN Raised(code.status)
    ELSE Returned(imports_of(ast_walk(code.body)))

(***************************************************************************)
(* extract_python_blocks (parser/markdown.py:61-72).  A document is the    *)
(* list of its fenced blocks, as extract_code_blocks gives it.             *)
(***************************************************************************)
\* markdown.py:7-14
CodeBlock(language, code, line_start, line_end) ==
    [language |-> language, code |-> code, line_start |-> line_start,
     line_end |-> line_end]

\* str.lower() on the language tags of the documents
lower(language) ==
    CASE language = "Py" -> "py"
      [] language = "Python" -> "python"
      [] OTHER -> language

extract_python_blocks(blocks) ==
    SelectSeq(blocks, LAMBDA block : lower(block.language) \in {"python", "py"})

(***************************************************************************)
(* extract_code_blocks (parser/markdown.py:17-58).  The text is the list   *)
(* of its lines, content.split('\n'); a line is the tuple of its           *)
(* characters, so that the two regular expressions are matched character   *)
(* by character.                                                           *)
(***************************************************************************)
\* the two fence characters
Backtick == "BACKTICK"
Tilde == "~"

\* the characters of a string
Chars(string) == [i \in 1..Len(string) |-> SubSeq(string, i, i)]

\* the string made of the characters
RECURSIVE Text(_)
Text(chars) == IF chars = <<>> THEN "" ELSE Head(chars) \o Text(Tail(chars))

\* \w and \s of the regular expressions
WordChars ==
    Range(Chars("abcdefghijklmnopqrstuvwxyzABCDEFGHIJKLMNOPQRSTUVWXYZ0123456789_"))
SpaceChars == {" ", "\t", "\n", "\r", "\f"}

\* markdown.py:34, re.match(r'^(```|~~~)(\w+)?', line): is there a match
opening_fence(line) ==
    /\ Len(line) >= 3
    /\ \/ SubSeq(line, 1, 3) = <<Backtick, Backtick, Backtick>>
       \/ SubSeq(line, 1, 3) = <<Tilde, Tilde, Tilde>>

\* markdown.py:36, match.group(1)
fence_type(line) == SubSeq(line, 1, 3)

\* the longest run of word characters from position i on
RECURSIVE word_run(_, _)
word_run(line, i) ==
    IF i <= Len(line) /\ line[i] \in WordChars
        THEN <<line[i]>> \o word_run(line, i + 1)
        ELSE <<>>

\* markdown.py:37, match.group(2) or ""
language_of(line) == Text(word_run(line, 4))

\* a closing fence of either type ends the block
closing_fence_any_type(fence, line) ==
    /\ opening_fence(line)
    /\ \A k \in 4..Len(line) : line[k] \in SpaceChars

\* markdown.py:44, re.match(rf'^{re.escape(fence_type)}\s*$', lines[i])
closing_fence(fence, line) ==
    /\ Len(line) >= 3
    /\ SubSeq(line, 1, 3) = fence
    /\ \A k \in 4..Len(line) : line[k] \in SpaceChars

\* markdown.py:43-54, the inner loop from line i on: the index of the closing
\* fence, 0 when the lines run out
RECURSIVE closing_index(_, _, _)
closing_index(lines, i, fence) ==
    IF i > Len(lines) THEN 0
    ELSE IF closing_fence(fence, lines[i]) THEN i
    ELSE closing_index(lines, i + 1, fence)

\* markdown.py:48, '\n'.join(code_lines)
RECURSIVE join_lines(_)
join_lines(code_lines) ==
    IF code_lines = <<>> THEN <<>>
    ELSE IF Len(code_lines) = 1 THEN code_lines[1]
    ELSE code_lines[1] \o <<"\n">> \o join_lines(Tail(code_lines))

\* markdown.py:30-56, the outer loop from line i on (i counts from 1 here and
\* from 0 in the code: line_start = i + 1 there is i here, and line_end, the
\* index of the closing fence there, is one less than its index here)
RECURSIVE scan_blocks(_, _, _)
scan_blocks(lines, i, found) ==
    IF i > Len(lines) THEN found
    ELSE IF opening_fence(lines[i])
        THEN LET close == closing_index(lines, i + 1, fence_type(lines[i])) IN
             IF close = 0 THEN found
             ELSE scan_blocks(lines, close + 1,
                      Append(found,
                             CodeBlock(language_of(lines[i]),
                                       join_lines(SubSeq(lines, i + 1, close - 1)),
                                       i, close - 1)))
    ELSE scan_blocks(lines, i + 1, found)

extract_code_blocks(lines) == scan_blocks(lines, 1, <<>>)

(***************************************************************************)
(* check (cli.py:32-119).                                                  *)
(***************************************************************************)
\* str.startswith
startswith(string, prefix) ==
    Len(prefix) <= Len(string) /\ SubSeq(string, 1, Len(prefix)) = prefix

\* the package filter that keeps matching modules only, without the
\* pass-through of relative imports and empty modules
package_filter_matching_only(syms, pkgs) ==
    IF pkgs # <<>>
        THEN SelectSeq(syms,
                 LAMBDA s : \E i \in 1..Len(pkgs) :
                     s.module = pkgs[i] \/ startswith(s.module, pkgs[i] \o "."))
        ELSE syms

\* cli.py:63-72
package_filter(syms, pkgs) ==
    IF pkgs # <<>>
        THEN SelectSeq(syms,
                 LAMBDA s :
                     \/ s.level > 0
                     \/ s.module = ""
                     \/ \E i \in 1..Len(pkgs) :
                            s.module = pkgs[i] \/ startswith(s.module, pkgs[i] \o "."))
        ELSE syms

\* the name of DOC_FILE
DocFile == "README.md"

\* cli.py:78-83, one entry of all_drifts
Drift(sym, block) ==
    [symbol |-> sym.symbol, module |-> sym.module, line |-> block.line_start,
     doc_file |-> DocFile]

\* what the run has gathered: all_drifts, the calls of resolve_import made so
\* far with what they gave, and the exception that ended the run, if any
NoProgress == [drifts |-> <<>>, calls |-> <<>>, error |-> None]

Resolving(sym, block, resolution) ==
    [module |-> sym.module, symbol |-> sym.symbol, level |-> sym.level,
     alias |-> sym.alias, line |-> block.line_start, resolution |-> resolution]

\* the loop of cli.py:75-83 that stops at the first drift it finds
RECURSIVE resolve_symbols_until_drift(_, _, _, _)
resolve_symbols_until_drift(syms, block, src, acc) ==
    IF syms = <<>> THEN acc
    ELSE LET sym == Head(syms)
             resolution == resolve_import(sym.module, sym.symbol, src, sym.level)
             calls == Append(acc.calls, Resolving(sym, block, resolution))
         IN  IF IsRaised(resolution)
                 THEN [acc EXCEPT !.calls = calls, !.error = resolution.raised]
             ELSE IF ~resolution.exists
                 THEN [acc EXCEPT !.calls = calls,
                                  !.drifts = Append(@, Drift(sym, block))]
             ELSE resolve_symbols_until_drift(Tail(syms), block, src,
                                              [acc EXCEPT !.calls = calls])

\* cli.py:75-83: every symbol is resolved, a missing one is added to
\* all_drifts; an exception of resolve_import ends the loop
RECURSIVE resolve_symbols(_, _, _, _)
resolve_symbols(syms, block, src, acc) ==
    IF syms = <<>> THEN acc
    ELSE LET sym == Head(syms)
             resolution == resolve_import(sym.module, sym.symbol, src, sym.level)
             calls == Append(acc.calls, Resolving(sym, block, resolution))
         IN  IF IsRaised(resolution)
                 THEN [acc EXCEPT !.calls = calls, !.error = resolution.raised]
             ELSE resolve_symbols(Tail(syms), block, src,
                      [acc EXCEPT !.calls = calls,
                                  !.drifts = IF ~resolution.exists
                                                 THEN Append(@, Drift(sym, block))
                                                 ELSE @])

\* the loop over the blocks without the handler for SyntaxError: a block that
\* does not parse ends the loop like any other exception
RECURSIVE check_blocks_aborting(_, _, _, _)
check_blocks_aborting(code_blocks, src, pkgs, acc) ==
    IF code_blocks = <<>> \/ acc.error # None THEN acc
    ELSE LET block == Head(code_blocks)
             parsed == parse_imports(block.code)
         IN  IF IsRaised(parsed)
                 THEN [acc EXCEPT !.error = parsed.raised]
             ELSE check_blocks_aborting(Tail(code_blocks), src, pkgs,
                      resolve_symbols(
                          package_filter(extract_symbols(parsed.value), pkgs),
                          block, src, acc))

\* cli.py:58-87: the loop over the blocks; a block that does not parse is
\* passed over, any other exception ends the loop
RECURSIVE check_blocks(_, _, _, _)
check_blocks(code_blocks, src, pkgs, acc) ==
    IF code_blocks = <<>> \/ acc.error # None THEN acc
    ELSE LET block == Head(code_blocks)
             parsed == parse_imports(block.code)
         IN  IF IsRaised(parsed) /\ parsed.raised = "SyntaxError"
                 THEN check_blocks(Tail(code_blocks), src, pkgs, acc)
             ELSE IF IsRaised(parsed)
                 THEN [acc EXCEPT !.error = parsed.raised]
             ELSE check_blocks(Tail(code_blocks), src, pkgs,
                      resolve_symbols(
                          package_filter(extract_symbols(parsed.value), pkgs),
                          block, src, acc))

\* the exit status that tells a drift from no drift the other way round
exit_status_inverted(all_drifts) == IF all_drifts # <<>> THEN 0 ELSE 1

\* cli.py:115: sys.exit(1 if all_drifts else 0)
exit_status(all_drifts) == IF all_drifts # <<>> THEN 1 ELSE 0

\* what a run of check leaves: its exit status, the JSON documents it
\* printed on stdout, and what it had gathered
Ran(json_output, exit, printed, acc) ==
    [done |-> TRUE, json_output |-> json_output, exit |-> exit,
     printed |-> printed, drifts |-> acc.drifts, calls |-> acc.calls,
     error |-> acc.error]

\* cli.py:42-119; document is what doc_file.read_text and
\* extract_code_blocks give, or the exception read_text raised
check(document, src, json_output, pkgs) ==
    IF document.status # "ok"
        THEN Ran(json_output, 2, <<>>, [NoProgress EXCEPT !.error = document.status])
    ELSE LET code_blocks == extract_python_blocks(document.blocks) IN
         IF code_blocks = <<>> THEN Ran(json_output, 0, <<>>, NoProgress)
         ELSE LET acc == check_blocks(code_blocks, src, pkgs, NoProgress) IN
              IF acc.error # None THEN Ran(json_output, 2, <<>>, acc)
              ELSE Ran(json_output, exit_status(acc.drifts),
                       IF json_output
                           THEN <<[drift_detected |-> Len(acc.drifts) > 0,
                                   drifts |-> acc.drifts]>>
                           ELSE <<>>,
                       acc)

(***************************************************************************)
(* Specification Spec: a source tree is laid out, then one import is       *)
(* resolved against it (the tree does not change during a check).          *)
(***************************************************************************)
\* the sandbox roots tried: a directory with a parent, and "/" itself
SrcDirs == {<<"p", "r">>, <<>>}

Symbols == {"S", "m"}

\* the texts written to files: one that defines S at top level (def S(): pass)
\* and one that defines nothing (pass)
Texts == {Source(<<FunctionDef("S", <<Pass>>)>>), Source(<<Pass>>)}

NotExtracted == [done |-> FALSE, list |-> <<>>]

\* no documentation file chosen yet, check not run yet
NoDoc == [status |-> "none", blocks |-> <<>>]
NoRun == [done |-> FALSE]
NoWalk == [state |-> "idle"]

NoCall == [fn |-> "none", module |-> None, symbol |-> None, level |-> 0, path |-> None]
NoRes == Resolution(None, FALSE, None, 0)

\* the files and the symbolic links of the tree
Entries == {path \in DirSlots \cup FileSlots : fs[path].type \in {"file", "symlink"}}

Init ==
    /\ fs = [path \in FsPaths |-> IF path \in FixedDirs THEN Dir ELSE Absent]
    /\ src_dir \in SrcDirs
    /\ call = NoCall
    /\ res = NoRes
    /\ imports = <<>>
    /\ symbols = NotExtracted
    /\ doc = NoDoc
    /\ packages = <<>>
    /\ run = NoRun
    /\ markdown = <<>>
    /\ extracted = NotExtracted
    /\ walk = NoWalk

\* a new entry can be made where nothing is, inside a real directory
CanCreate(path) ==
    /\ call = NoCall
    /\ fs[path].type = "absent"
    /\ fs[parent(path)].type = "dir"

Create(path, entry) ==
    /\ fs' = [fs EXCEPT ![path] = entry]
    /\ call' = NoCall
    /\ res' = NoRes
    /\ UNCHANGED <<src_dir, imports, symbols, doc, packages, run,
                 markdown, extracted, walk>>

WriteText ==
    \E path \in FileSlots, text \in Texts :
        /\ CanCreate(path)
        /\ Cardinality(Entries) < MaxEntries
        /\ Create(path, File(text))

Mkdir ==
    \E path \in DirSlots : CanCreate(path) /\ Create(path, Dir)

SymlinkTo ==
    \E path \in DirSlots \cup FileSlots, target \in FsPaths :
        /\ CanCreate(path)
        /\ Cardinality(Entries) < MaxEntries
        /\ target # path
        /\ ~is_relative_to(target, path)
        /\ fs[target].type = (IF path \in FileSlots THEN "file" ELSE "dir")
        /\ Create(path, Symlink(target))

ResolveImport ==
    \E module \in ModuleStrings, symbol \in Symbols, level \in 0..MaxLevel :
        /\ call = NoCall
        /\ call' = [fn |-> "resolve_import", module |-> module, symbol |-> symbol,
                    level |-> level, path |-> src_dir]
        /\ res' = resolve_import(module, symbol, src_dir, level)
        /\ UNCHANGED <<fs, src_dir, imports, symbols, doc, packages, run,
                 markdown, extracted, walk>>

Next == WriteText \/ Mkdir \/ SymlinkTo \/ ResolveImport

Spec == Init /\ [][Next]_vars

(***************************************************************************)
(* Properties of resolve_import, stated on the last call and its result.   *)
(***************************************************************************)
Resolved == call.fn = "resolve_import"

\* the path leads, once links are followed, into the sandbox root
InsideRoot(path) == is_relative_to(resolve(path), resolve(src_dir))

\* the two candidates of a module below a base directory
CandidateFile(base, module) == with_suffix_py(joinpath(base, module_split(module)))
CandidateInit(base, module) ==
    joinpath(base, module_split(module) \o <<Rel(<<"__init__.py">>)>>)

\* a candidate that exists and leads into the root
Usable(path) == path # "ValueError" /\ exists(path) /\ InsideRoot(path)

\* the unit an import of the module targets: the module file, else the
\* package init, when it exists inside the root
TargetUnit(module) ==
    IF Usable(CandidateFile(src_dir, module)) THEN CandidateFile(src_dir, module)
    ELSE IF Usable(CandidateInit(src_dir, module)) THEN CandidateInit(src_dir, module)
    ELSE None

\* the text binds the name at top level (the texts of this specification
\* bind by def only)
TextBinds(text, symbol) ==
    /\ text.status = "ok"
    /\ \E n \in 1..Len(text.body) :
           text.body[n].kind = "FunctionDef" /\ text.body[n].name = symbol

UnitBinds(path, symbol) ==
    /\ path # "ValueError"
    /\ Entry(resolve(path)).type = "file"
    /\ TextBinds(Entry(resolve(path)).content, symbol)

\* C1 (as claimed): containment. Whatever the depth and the module string,
\* a found result names a location that leads into the sandbox root.
C1_Containment ==
    (Resolved /\ res.exists) => InsideRoot(res.location)

\* C2 (as claimed): no cross-module leakage, for every symbol. An absolute
\* import of a non-empty module whose unit exists and does not bind the
\* symbol is not found.
C2_NoLeakageAnySymbol ==
    (/\ Resolved
     /\ call.level = 0
     /\ call.module # ""
     /\ TargetUnit(call.module) # None
     /\ ~UnitBinds(TargetUnit(call.module), call.symbol))
        => ~res.exists

\* C2 (amended): no cross-module leakage for a symbol other than the module
\* string itself. An absolute import of a non-empty module whose unit exists
\* and does not bind the symbol is not found, whatever other units bind it.
C2_NoLeakage ==
    (/\ Resolved
     /\ call.level = 0
     /\ call.module # ""
     /\ call.symbol # call.module
     /\ TargetUnit(call.module) # None
     /\ ~UnitBinds(TargetUnit(call.module), call.symbol))
        => ~res.exists

\* m.py lacks S, n.py beside it binds S, and "from m import S" was resolved
C2_Witness ==
    /\ Resolved
    /\ call.level = 0
    /\ call.module = "m"
    /\ call.symbol = "S"
    /\ src_dir = <<"p", "r">>
    /\ Usable(<<"p", "r", "m.py">>)
    /\ ~UnitBinds(<<"p", "r", "m.py">>, "S")
    /\ UnitBinds(<<"p", "r", "n.py">>, "S")
    /\ ~res.exists

\* C3 (as claimed): every candidate is verified before it is accepted or
\* read. An import of a module none of whose candidates exists inside the
\* root is not found, for absolute and relative imports alike.
C3_CandidatesVerified ==
    (/\ Resolved
     /\ call.module # ""
     /\ TargetUnit(call.module) = None)
        => ~res.exists

\* C4 (as claimed): every relative import of depth 2 or more is not found.
C4_DepthTwoBlocked ==
    (Resolved /\ call.level >= 2) => ~res.exists

\* C4 (amended): from a root that has a parent directory, every relative
\* import of depth 2 or more is not found.
C4_DepthTwoBlockedBelowFsRoot ==
    (Resolved /\ call.level >= 2 /\ parent(src_dir) # src_dir) => ~res.exists

\* "from ...m import S" was resolved from /p/r while /m.py, two levels up,
\* binds S
C4_Witness ==
    /\ Resolved
    /\ call.level = 3
    /\ call.module = "m"
    /\ call.symbol = "S"
    /\ src_dir = <<"p", "r">>
    /\ UnitBinds(<<"m.py">>, "S")
    /\ ~res.exists

C12_PlainImportExistence ==
    (/\ Resolved
     /\ call.level = 0
     /\ call.module # ""
     /\ call.symbol = call.module)
        => /\ res.exists <=> (\/ Usable(CandidateFile(src_dir, call.module))
                               \/ Usable(CandidateInit(src_dir, call.module)))
           /\ res.exists => res = Located(call.symbol, TargetUnit(call.module))
           /\ ~res.exists => res = NotFound(call.symbol)

\* "import m" was resolved and found while /p/r/m.py binds no m
C12_Witness ==
    /\ Resolved
    /\ call.level = 0
    /\ call.module = "m"
    /\ call.symbol = "m"
    /\ src_dir = <<"p", "r">>
    /\ Usable(<<"p", "r", "m.py">>)
    /\ ~UnitBinds(<<"p", "r", "m.py">>, "m")
    /\ res.exists

\* the name is bound at top level by a regular file that lies below the
\* directory (files reached through a symbolic link do not lie below it)
BoundBelow(dir, symbol) ==
    \E f \in FileSlots :
        /\ Len(f) > Len(dir)
        /\ is_relative_to(f, dir)
        /\ fs[f].type = "file"
        /\ TextBinds(fs[f].content, symbol)

\* C28: candidate order for an absolute from-import. The module file, when
\* it exists inside the root, decides: the import is found exactly when that
\* file binds the symbol, whatever the package init binds; the init decides
\* only when the module file is absent or rejected; the result names the
\* deciding unit.
C28_CandidateOrder ==
    (/\ Resolved
     /\ call.level = 0
     /\ call.module # ""
     /\ call.symbol # call.module) =>
        LET file == CandidateFile(src_dir, call.module)
            init == CandidateInit(src_dir, call.module)
        IN  IF Usable(file)
                THEN /\ res.exists <=> UnitBinds(file, call.symbol)
                     /\ res.exists => res.location = file
            ELSE IF Usable(init)
                THEN /\ res.exists <=> UnitBinds(init, call.symbol)
                     /\ res.exists => res.location = init
            ELSE ~res.exists

\* "from m import S" was resolved from /p/r, where m.py lacks S and the
\* package m/__init__.py binds S
C28_Witness ==
    /\ Resolved
    /\ call.level = 0
    /\ call.module = "m"
    /\ call.symbol = "S"
    /\ src_dir = <<"p", "r">>
    /\ Usable(<<"p", "r", "m.py">>)
    /\ ~UnitBinds(<<"p", "r", "m.py">>, "S")
    /\ UnitBinds(<<"p", "r", "m", "__init__.py">>, "S")
    /\ ~res.exists

\* C13: an absolute import of an empty module is never resolved, whatever
\* the symbol and the tree; no unit is searched.
C13_EmptyModuleNotFound ==
    (Resolved /\ call.level = 0 /\ call.module = "")
        => res = NotFound(call.symbol)

\* an absolute import of S from the empty module was resolved while a unit
\* below the root binds S
C13_Witness ==
    /\ Resolved
    /\ call.level = 0
    /\ call.module = ""
    /\ call.symbol = "S"
    /\ BoundBelow(src_dir, "S")
    /\ ~res.exists

\* C14: relative import of a module at depth 1. It is found exactly when the
\* symbol is bound in the module file if that file exists, or else in the
\* package init if that exists; no other unit is searched, and the result
\* names the unit.
C14_RelativeModule ==
    (Resolved /\ call.level = 1 /\ call.module # "") =>
        LET file == CandidateFile(src_dir, call.module)
            init == CandidateInit(src_dir, call.module)
            unit == IF file # "ValueError" /\ exists(file) THEN file
                    ELSE IF exists(init) THEN init
                    ELSE None
        IN  /\ res.exists <=> (unit # None /\ UnitBinds(unit, call.symbol))
            /\ res.exists => res = Located(call.symbol, unit)
            /\ ~res.exists => res = NotFound(call.symbol)

\* "from .m import S" was resolved from /p/r, where m.py lacks S and the
\* package m/__init__.py binds S
C14_Witness ==
    /\ Resolved
    /\ call.level = 1
    /\ call.module = "m"
    /\ call.symbol = "S"
    /\ src_dir = <<"p", "r">>
    /\ exists(<<"p", "r", "m.py">>)
    /\ ~UnitBinds(<<"p", "r", "m.py">>, "S")
    /\ UnitBinds(<<"p", "r", "m", "__init__.py">>, "S")
    /\ ~res.exists

\* C15: bare relative import (depth 1, empty module). It is found exactly
\* when some regular file below the root binds the symbol; a file or package
\* named after the symbol does not make it found.
C15_BareRelative ==
    (Resolved /\ call.level = 1 /\ call.module = "")
        => (res.exists <=> BoundBelow(resolve(src_dir), call.symbol))

\* "from . import m" was resolved from /p/r, where the file m.py exists and
\* no unit binds m
C15_Witness ==
    /\ Resolved
    /\ call.level = 1
    /\ call.module = ""
    /\ call.symbol = "m"
    /\ src_dir = <<"p", "r">>
    /\ fs[<<"p", "r", "m.py">>].type = "file"
    /\ ~BoundBelow(<<"p", "r">>, "m")
    /\ ~res.exists

(***************************************************************************)
(* Specification SpecAst: the text of one unit, /p/r/m.py, is put          *)
(* together statement by statement, then one name is looked up in it with  *)
(* find_symbol_in_file.                                                    *)
(***************************************************************************)
UnitPath == <<"p", "r", "m.py">>

\* the names looked up
Names == {"X", "Y"}

\* simple statements and definitions with an empty body:
\*   def X(): pass, async def X(): pass, class X: pass, X = v, Y, *X = v,
\*   Y = [(X,)] = v, X.attr = v, X: t = v, X.attr: t = v,
\*   from z import X, from z import Y as X, from z import X as Y,
\*   import X, import Y as X, import X as Y
Leaves ==
    { FunctionDef("X", <<Pass>>), AsyncFunctionDef("X", <<Pass>>),
      ClassDef("X", <<Pass>>),
      Assign(<<Name("X")>>),
      Assign(<<Tuple(<<Name("Y"), Starred(Name("X"))>>)>>),
      Assign(<<Name("Y"), List(<<Tuple(<<Name("X")>>)>>)>>),
      Assign(<<Attribute("X")>>),
      AnnAssign(Name("X")), AnnAssign(Attribute("X")),
      ImportFrom(<<Alias("X", None)>>), ImportFrom(<<Alias("Y", "X")>>),
      ImportFrom(<<Alias("X", "Y")>>),
      Import(<<Alias("X", None)>>), Import(<<Alias("Y", "X")>>),
      Import(<<Alias("X", "Y")>>) }

\* the statements that follow the first one: pass, X = v, from z import X as Y
SiblingLeaves ==
    { Pass, Assign(<<Name("X")>>), ImportFrom(<<Alias("X", "Y")>>) }

\* the blocks of compound statements a statement can be put into
Slots ==
    { "If.body", "If.orelse", "Try.body", "Try.handlers", "Try.orelse",
      "Try.finalbody", "With.body", "AsyncWith.body", "For.body", "For.orelse",
      "AsyncFor.body", "AsyncFor.orelse", "While.body", "While.orelse",
      "FunctionDef.body", "AsyncFunctionDef.body", "ClassDef.body" }

\* the blocks a compound statement can be put into
OuterSlots ==
    { "If.body", "If.orelse", "Try.body", "For.body", "FunctionDef.body",
      "ClassDef.body" }

\* the compound statement that holds stmt in the given block; its other
\* blocks hold what the grammar requires (pass, one handler)
Enclose(slot, stmt) ==
    CASE slot = "If.body" -> If(<<stmt>>, <<>>)
      [] slot = "If.orelse" -> If(<<Pass>>, <<stmt>>)
      [] slot = "Try.body" -> Try(<<stmt>>, << <<Pass>> >>, <<>>, <<>>)
      [] slot = "Try.handlers" -> Try(<<Pass>>, << <<stmt>> >>, <<>>, <<>>)
      [] slot = "Try.orelse" -> Try(<<Pass>>, << <<Pass>> >>, <<stmt>>, <<>>)
      [] slot = "Try.finalbody" -> Try(<<Pass>>, <<>>, <<>>, <<stmt>>)
      [] slot = "With.body" -> With(<<stmt>>)
      [] slot = "AsyncWith.body" -> AsyncWith(<<stmt>>)
      [] slot = "For.body" -> For(<<stmt>>, <<>>)
      [] slot = "For.orelse" -> For(<<Pass>>, <<stmt>>)
      [] slot = "AsyncFor.body" -> AsyncFor(<<stmt>>, <<>>)
      [] slot = "AsyncFor.orelse" -> AsyncFor(<<Pass>>, <<stmt>>)
      [] slot = "While.body" -> While(<<stmt>>, <<>>)
      [] slot = "While.orelse" -> While(<<Pass>>, <<stmt>>)
      [] slot = "FunctionDef.body" -> FunctionDef("f", <<stmt>>)
      [] slot = "AsyncFunctionDef.body" -> AsyncFunctionDef("f", <<stmt>>)
      [] slot = "ClassDef.body" -> ClassDef("C", <<stmt>>)

\* the blocks of a statement
RECURSIVE Flatten(_)
Flatten(seqs) == IF seqs = <<>> THEN <<>> ELSE Head(seqs) \o Flatten(Tail(seqs))

Blocks(stmt) == <<stmt.body, stmt.orelse, stmt.finalbody>> \o stmt.handlers

Children(stmt) == Flatten(Blocks(stmt))

\* how many compound statements are nested around the innermost statement
RECURSIVE Height(_)
RECURSIVE MaxHeight(_)
MaxHeight(stmts) ==
    IF stmts = <<>> THEN 0
    ELSE LET h == Height(Head(stmts))
             t == MaxHeight(Tail(stmts))
         IN  IF h > t THEN h ELSE t

Height(stmt) ==
    IF Range(Children(stmt)) \subseteq {Pass} THEN 0
    ELSE 1 + MaxHeight(Children(stmt))

UnitBody == fs[UnitPath].content.body

InitAst ==
    /\ fs = [path \in FsPaths |->
                IF path \in FixedDirs THEN Dir
                ELSE IF path = UnitPath THEN File(Source(<<>>))
                ELSE Absent]
    /\ src_dir = <<"p", "r">>
    /\ call = NoCall
    /\ res = NoRes
    /\ imports = <<>>
    /\ symbols = NotExtracted
    /\ doc = NoDoc
    /\ packages = <<>>
    /\ run = NoRun
    /\ markdown = <<>>
    /\ extracted = NotExtracted
    /\ walk = NoWalk

SetUnit(body) ==
    /\ fs' = [fs EXCEPT ![UnitPath] = File(Source(body))]
    /\ UNCHANGED <<src_dir, call, res, imports, symbols, doc, packages, run,
                 markdown, extracted, walk>>

AddStmt ==
    /\ call = NoCall
    /\ Len(UnitBody) < MaxBody
    /\ \E stmt \in (IF UnitBody = <<>> THEN Leaves ELSE SiblingLeaves) :
           SetUnit(Append(UnitBody, stmt))

EncloseStmt ==
    /\ call = NoCall
    /\ Len(UnitBody) = 1
    /\ Height(UnitBody[1]) < MaxDepth
    /\ \E slot \in (IF Height(UnitBody[1]) = 0 THEN Slots ELSE OuterSlots) :
           SetUnit(<<Enclose(slot, UnitBody[1])>>)

FindSymbol ==
    \E symbol \in Names :
        /\ call = NoCall
        /\ call' = [fn |-> "find_symbol_in_file", module |-> None,
                    symbol |-> symbol, level |-> 0, path |-> UnitPath]
        /\ res' = find_symbol_in_file(symbol, UnitPath)
        /\ UNCHANGED <<fs, src_dir, imports, symbols, doc, packages, run,
                 markdown, extracted, walk>>

NextAst == AddStmt \/ EncloseStmt \/ FindSymbol

SpecAst == InitAst /\ [][NextAst]_vars

(***************************************************************************)
(* Properties of find_symbol_in_file, stated on the last lookup and its    *)
(* result.  What a statement binds is Python's rule, written here without  *)
(* reference to the search.                                                *)
(***************************************************************************)
LookedUp == call.fn = "find_symbol_in_file"

ScopeKinds == {"FunctionDef", "AsyncFunctionDef", "ClassDef"}
ControlKinds == {"If", "Try", "With", "AsyncWith", "For", "AsyncFor", "While"}

\* the names an assignment target binds
RECURSIVE TargetNames(_)
TargetNames(target) ==
    IF target.t = "Name" THEN {target.id}
    ELSE IF target.t \in {"Tuple", "List", "Starred"}
        THEN UNION {TargetNames(target.elts[i]) : i \in 1..Len(target.elts)}
    ELSE {}

\* the statement itself binds the name in the block it stands in
Binds(stmt, name) ==
    \/ stmt.kind \in ScopeKinds /\ stmt.name = name
    \/ /\ stmt.kind \in {"Assign", "AnnAssign"}
       /\ \E i \in 1..Len(stmt.targets) : name \in TargetNames(stmt.targets[i])
    \/ /\ stmt.kind \in {"ImportFrom", "Import"}
       /\ \E i \in 1..Len(stmt.names) :
              name = (IF stmt.names[i].asname = None THEN stmt.names[i].name
                      ELSE stmt.names[i].asname)

\* the name is bound by some statement of the block
BoundIn(block, name) == \E i \in 1..Len(block) : Binds(block[i], name)

\* the name is bound somewhere in the statements, at any depth
RECURSIVE BoundAnywhere(_, _)
BoundAnywhere(stmts, name) ==
    \E i \in 1..Len(stmts) :
        Binds(stmts[i], name) \/ BoundAnywhere(Children(stmts[i]), name)

\* the name is bound in the module's own scope: at top level, or in a control
\* block at any depth, but not inside a function or class body
RECURSIVE BoundOutsideScopes(_, _)
BoundOutsideScopes(stmts, name) ==
    \E i \in 1..Len(stmts) :
        \/ Binds(stmts[i], name)
        \/ /\ stmts[i].kind \in ControlKinds
           /\ BoundOutsideScopes(Children(stmts[i]), name)

\* the name is bound inside the body of a function, a method or a class
RECURSIVE BoundInScope(_, _)
BoundInScope(stmts, name) ==
    \E i \in 1..Len(stmts) :
        \/ /\ stmts[i].kind \in ScopeKinds
           /\ BoundAnywhere(Children(stmts[i]), name)
        \/ /\ stmts[i].kind \in ControlKinds
           /\ BoundInScope(Children(stmts[i]), name)

\* C6: scope exclusion. A name bound only inside function, method or class
\* bodies is reported as not found.
C6_ScopeExclusion ==
    (/\ LookedUp
     /\ BoundInScope(UnitBody, call.symbol)
     /\ ~BoundOutsideScopes(UnitBody, call.symbol))
        => ~res.exists

\* X is bound in a method body only (class C: def f(): <binds X>) and was
\* looked up
C6_Witness ==
    /\ LookedUp
    /\ call.symbol = "X"
    /\ Len(UnitBody) = 1
    /\ UnitBody[1].kind = "ClassDef"
    /\ UnitBody[1].body[1].kind = "FunctionDef"
    /\ BoundIn(UnitBody[1].body[1].body, "X")
    /\ ~BoundOutsideScopes(UnitBody, "X")
    /\ ~res.exists

\* C7: bounded-scope inclusion. A name bound directly inside a block of a
\* top-level if, try or with statement (if and else branch, try body, except
\* handler, try-else, finally, with body) is reported as found.
C7_BoundedScopeInclusion ==
    (/\ LookedUp
     /\ \E n \in 1..Len(UnitBody) :
            /\ UnitBody[n].kind \in {"If", "Try", "With", "AsyncWith"}
            /\ \E b \in 1..Len(Blocks(UnitBody[n])) :
                   BoundIn(Blocks(UnitBody[n])[b], call.symbol))
        => res.exists

\* X is bound by an import alias in an except handler and was looked up
C7_Witness ==
    /\ LookedUp
    /\ call.symbol = "X"
    /\ Len(UnitBody) = 1
    /\ UnitBody[1].kind = "Try"
    /\ Len(UnitBody[1].handlers) = 1
    /\ UnitBody[1].handlers[1] = <<ImportFrom(<<Alias("Y", "X")>>)>>
    /\ res.exists

\* C8 (as claimed): loop bodies. A name bound directly inside the body of a
\* top-level for, async for or while loop is reported as found.
C8_LoopBodies ==
    (/\ LookedUp
     /\ \E n \in 1..Len(UnitBody) :
            /\ UnitBody[n].kind \in {"For", "AsyncFor", "While"}
            /\ BoundIn(UnitBody[n].body, call.symbol))
        => res.exists

\* the name is bound by an import statement standing directly in the block
ImportBinds(block, name) ==
    \E i \in 1..Len(block) :
        /\ block[i].kind \in {"ImportFrom", "Import"}
        /\ Binds(block[i], name)

\* the name is re-exported: bound by an import at top level, or directly in a
\* block of a top-level if, try, with or for statement
ReExported(stmts, name) ==
    \/ ImportBinds(stmts, name)
    \/ \E n \in 1..Len(stmts) :
           /\ stmts[n].kind \in {"If", "Try", "With", "AsyncWith", "For", "AsyncFor"}
           /\ \E b \in 1..Len(Blocks(stmts[n])) :
                  ImportBinds(Blocks(stmts[n])[b], name)

\* C21: re-exports match on the bound name. A name bound by an import at top
\* level or one level down (the alias when one is given, the imported name
\* otherwise) is reported as found, and a name that nothing in the unit binds,
\* such as the original name of an aliased import, is reported as not found.
C21_ReExportBoundName ==
    LookedUp =>
        /\ ReExported(UnitBody, call.symbol) => res.exists
        /\ ~BoundAnywhere(UnitBody, call.symbol) => ~res.exists

\* the unit is `from z import Y as X` and the original name Y was looked up
C21_Witness ==
    /\ LookedUp
    /\ call.symbol = "Y"
    /\ UnitBody = <<ImportFrom(<<Alias("Y", "X")>>)>>
    /\ ~res.exists

\* the name is bound at top level or directly in a block of a top-level
\* statement, that is at nesting depth zero or one
ShallowBound(stmts, name) ==
    \/ BoundIn(stmts, name)
    \/ \E n \in 1..Len(stmts) : BoundIn(Children(stmts[n]), name)

\* C25: depth bound of the scoped search. A name bound only at nesting depth
\* two or more below the top level of the module is reported as not found.
C25_DepthBound ==
    (LookedUp /\ ~ShallowBound(UnitBody, call.symbol)) => ~res.exists

\* X is bound only in an elif branch (an if in the else part of a top-level
\* if) and was looked up
C25_Witness ==
    /\ LookedUp
    /\ call.symbol = "X"
    /\ Len(UnitBody) = 1
    /\ UnitBody[1].kind = "If"
    /\ Len(UnitBody[1].orelse) = 1
    /\ UnitBody[1].orelse[1].kind = "If"
    /\ BoundIn(UnitBody[1].orelse[1].body, "X")
    /\ ~ShallowBound(UnitBody, "X")
    /\ ~res.exists

(***************************************************************************)
(* Specification SpecExtract: a list of Import statements is put together  *)
(* and handed to extract_symbols.                                          *)
(***************************************************************************)
SeqsUpTo(S, n) == UNION {[1..k -> S] : k \in 0..n}

\* module and level of the statements: import os / from os import ...,
\* import os.path / from os.path import ..., from . import ...
Heads == { <<"os", 0>>, <<"os.path", 0>>, <<"", 1>> }

\* alias dicts: none; x for a; x for b and y for a; x for the module os.path
AliasDicts ==
    { <<>>, << <<"x", "a">> >>, << <<"x", "b">>, <<"y", "a">> >>,
      << <<"x", "os.path">> >> }

ImportInputs ==
    { ImportStmt(h[1], names, aliases, h[2]) :
        h \in Heads, names \in SeqsUpTo({"a", "b", "*"}, MaxNames),
        aliases \in AliasDicts }

\* the statements that follow the first one: import os.path,
\* from os import b, *, from . import a as x
SiblingImports ==
    { ImportStmt("os.path", <<>>, <<>>, 0),
      ImportStmt("os", <<"b", "*">>, <<>>, 0),
      ImportStmt("", <<"a">>, << <<"x", "a">> >>, 1) }

InitExtract ==
    /\ fs = [path \in FsPaths |-> IF path \in FixedDirs THEN Dir ELSE Absent]
    /\ src_dir = <<"p", "r">>
    /\ call = NoCall
    /\ res = NoRes
    /\ imports = <<>>
    /\ symbols = NotExtracted
    /\ doc = NoDoc
    /\ packages = <<>>
    /\ run = NoRun
    /\ markdown = <<>>
    /\ extracted = NotExtracted
    /\ walk = NoWalk

AddImport ==
    /\ symbols = NotExtracted
    /\ Len(imports) < MaxImports
    /\ \E imp \in (IF imports = <<>> THEN ImportInputs ELSE SiblingImports) :
           imports' = Append(imports, imp)
    /\ UNCHANGED <<fs, src_dir, call, res, symbols, doc, packages, run,
                 markdown, extracted, walk>>

ExtractSymbols ==
    /\ symbols = NotExtracted
    /\ symbols' = [done |-> TRUE, list |-> extract_symbols(imports)]
    /\ UNCHANGED <<fs, src_dir, call, res, imports, doc, packages, run,
                 markdown, extracted, walk>>

NextExtract == AddImport \/ ExtractSymbols

SpecExtract == InitExtract /\ [][NextExtract]_vars

(***************************************************************************)
(* Properties of extract_symbols.                                          *)
(***************************************************************************)
Extracted == symbols.done

NonWildcard(names) == SelectSeq(names, LAMBDA n : n # "*")

\* the number of references a statement is to give
RefCount(imp) == IF imp.names = <<>> THEN 1 ELSE Len(NonWildcard(imp.names))

\* the number of references the statements before the k-th are to give
RECURSIVE Offset(_)
Offset(k) == IF k <= 1 THEN 0 ELSE Offset(k - 1) + RefCount(imports[k - 1])

\* C9: wildcard exclusion with mixed lists. A statement with a non-empty
\* name list gives exactly one reference per name that is not "*", in the
\* order of the names, and nothing for "*".
C9_WildcardExclusion ==
    Extracted =>
        /\ Len(symbols.list) = Offset(Len(imports) + 1)
        /\ \A k \in 1..Len(imports) :
               imports[k].names # <<>> =>
                   \A j \in 1..Len(NonWildcard(imports[k].names)) :
                       /\ symbols.list[Offset(k) + j].symbol = NonWildcard(imports[k].names)[j]
                       /\ symbols.list[Offset(k) + j].module = imports[k].module

\* the names [a, *, b] were extracted
C9_Witness ==
    /\ Extracted
    /\ Len(imports) = 1
    /\ imports[1].names = <<"a", "*", "b">>
    /\ Len(symbols.list) = 2
    /\ symbols.list[1].symbol = "a"
    /\ symbols.list[2].symbol = "b"

\* C10: plain-import full-path check. A statement with an empty name list
\* gives exactly one reference; its symbol and its module are the full
\* dotted module path, and its alias is the statement's alias, if any.
C10_PlainImportFullPath ==
    Extracted =>
        /\ Len(symbols.list) = Offset(Len(imports) + 1)
        /\ \A k \in 1..Len(imports) :
               imports[k].names = <<>> =>
                   symbols.list[Offset(k) + 1] =
                       ImportedSymbol(imports[k].module, imports[k].module,
                                      IF imports[k].aliases = <<>> THEN None
                                      ELSE imports[k].aliases[1][1],
                                      imports[k].level)

\* "import os.path as x" was extracted
C10_Witness ==
    /\ Extracted
    /\ imports = <<ImportStmt("os.path", <<>>, << <<"x", "os.path">> >>, 0)>>
    /\ symbols.list = <<ImportedSymbol("os.path", "os.path", "x", 0)>>

(***************************************************************************)
(* Specification SpecUnits: units are written and linked below /p/r, some  *)
(* of them unreadable, then one of find_symbol_in_file,                    *)
(* find_symbol_in_directory and resolve_import is called.                  *)
(***************************************************************************)
\* the units of the tree below /p/r
UnitSlots ==
    { <<"p", "r", "m.py">>, <<"p", "r", "n.py">>, <<"p", "r", "m", "__init__.py">> }

\* what reading and parsing a unit gives: the two texts of Texts, a text
\* that defines m at top level (def m(): pass), bytes that
\* are no UTF-8, text that is no Python, and an expression nested too deep
\* for the parser (S = ------...1), for which ast.parse raises MemoryError
UnitTexts ==
    Texts \cup { Source(<<FunctionDef("m", <<Pass>>)>>),
                 Failure("UnicodeDecodeError"), Failure("SyntaxError"),
                 Failure("MemoryError") }

\* the paths given to find_symbol_in_file: the units and a directory
LookupPaths == UnitSlots \cup { <<"p", "r", "m">> }

\* the paths given to find_symbol_in_directory: the root, the package, a
\* path that may be a file, and a path that is never there
SearchDirs ==
    { <<"p", "r">>, <<"p", "r", "m">>, <<"p", "r", "m.py">>, <<"p", "x">> }

InitUnits ==
    /\ fs = [path \in FsPaths |-> IF path \in FixedDirs THEN Dir ELSE Absent]
    /\ src_dir = <<"p", "r">>
    /\ call = NoCall
    /\ res = NoRes
    /\ imports = <<>>
    /\ symbols = NotExtracted
    /\ doc = NoDoc
    /\ packages = <<>>
    /\ run = NoRun
    /\ markdown = <<>>
    /\ extracted = NotExtracted
    /\ walk = NoWalk

WriteUnit ==
    \E path \in UnitSlots, text \in UnitTexts :
        CanCreate(path) /\ Create(path, File(text))

\* ln -s target path; with target = path the link leads back to itself
LinkUnit ==
    \E path \in UnitSlots, target \in UnitSlots :
        /\ CanCreate(path)
        /\ IF target = path THEN Create(path, Loop)
           ELSE fs[target].type = "file" /\ Create(path, Symlink(target))

FindInFile ==
    \E symbol \in Symbols, path \in LookupPaths :
        /\ call = NoCall
        /\ call' = [fn |-> "find_symbol_in_file", module |-> None,
                    symbol |-> symbol, level |-> 0, path |-> path]
        /\ res' = find_symbol_in_file(symbol, path)
        /\ UNCHANGED <<fs, src_dir, imports, symbols, doc, packages, run,
                 markdown, extracted, walk>>

FindInDirectory ==
    \E symbol \in Symbols, dir \in SearchDirs :
        /\ call = NoCall
        /\ call' = [fn |-> "find_symbol_in_directory", module |-> None,
                    symbol |-> symbol, level |-> 0, path |-> dir]
        /\ res' = find_symbol_in_directory(symbol, dir)
        /\ UNCHANGED <<fs, src_dir, imports, symbols, doc, packages, run,
                 markdown, extracted, walk>>

NextUnits ==
    WriteUnit \/ LinkUnit \/ Mkdir \/ FindInFile \/ FindInDirectory \/ ResolveImport

SpecUnits == InitUnits /\ [][NextUnits]_vars

(***************************************************************************)
(* Properties of the resolver's failure handling and of the directory      *)
(* search, stated on the last call and its result.                         *)
(***************************************************************************)
Called == call.fn # "none"

\* the statuses of a unit that cannot be read, cannot be decoded or is not
\* syntactically valid
UnitFailures == {"OSError", "UnicodeDecodeError", "SyntaxError"}

\* C19 (as claimed): resolver failures never propagate. Every call of
\* resolve_import, find_symbol_in_file and find_symbol_in_directory returns a
\* Resolution, and a lookup in a unit that cannot be read, decoded or parsed
\* gives exists = False with confidence 0.0.
C19_FailuresNeverPropagate ==
    Called =>
        /\ ~IsRaised(res)
        /\ (/\ call.fn = "find_symbol_in_file"
            /\ read_text(call.path).status \in UnitFailures)
               => res = NotFound(call.symbol)

\* the regular files that lie below the directory, in the order of the walk
UnitsBelow(dir) ==
    SelectSeq(FileOrder,
        LAMBDA f : Len(f) > Len(dir) /\ is_relative_to(f, dir) /\ fs[f].type = "file")

\* the ones among them that bind the name
BindingUnits(dir, symbol) ==
    SelectSeq(UnitsBelow(dir), LAMBDA f : TextBinds(fs[f].content, symbol))

\* every unit below the directory can be parsed, or fails by its encoding or
\* its syntax
OnlyUnitFailures(dir) ==
    \A f \in Range(UnitsBelow(dir)) :
        fs[f].content.status \in {"ok"} \cup UnitFailures

\* C20: the directory search is first-match and failure-tolerant. Where the
\* units below the directory parse or fail by encoding or syntax, the search
\* returns the first regular file of the walk that binds the symbol, at any
\* depth, passing over symbolic links and units that fail; it returns not
\* found when there is none or the path is no directory.
C20_DirectorySearch ==
    (call.fn = "find_symbol_in_directory" /\ OnlyUnitFailures(call.path)) =>
        IF Entry(call.path).type # "dir" \/ BindingUnits(call.path, call.symbol) = <<>>
            THEN res = NotFound(call.symbol)
            ELSE res = Located(call.symbol, Head(BindingUnits(call.path, call.symbol)))

\* S was searched below /p/r, where m.py is no Python, n.py is a link to the
\* unit that binds S, and that unit is the init of package m
C20_Witness ==
    /\ call.fn = "find_symbol_in_directory"
    /\ call.symbol = "S"
    /\ call.path = <<"p", "r">>
    /\ fs[<<"p", "r", "m.py">>].type = "file"
    /\ fs[<<"p", "r", "m.py">>].content.status = "SyntaxError"
    /\ fs[<<"p", "r", "n.py">>].type = "symlink"
    /\ res = Located("S", <<"p", "r", "m", "__init__.py">>)

\* C24: result shape. Every Resolution a resolver function returns carries
\* the queried symbol and is either found, with a location and confidence
\* 1.0, or not found, without location and with confidence 0.0; a not-found
\* result is the same record whatever caused it.
C24_ResultShape ==
    (Called /\ ~IsRaised(res)) =>
        /\ res.symbol = call.symbol
        /\ res.exists <=> res.confidence = 1
        /\ res.exists <=> res.location # None
        /\ ~res.exists =>
               res = [symbol |-> call.symbol, exists |-> FALSE, location |-> None,
                      confidence |-> 0]

\* "from ..m import S" was resolved from /p/r, a step above the root, while
\* a unit below the root binds S: not found, without location
C24_Witness ==
    /\ call.fn = "resolve_import"
    /\ call.level = 2
    /\ call.module = "m"
    /\ call.symbol = "S"
    /\ BindingUnits(<<"p", "r">>, "S") # <<>>
    /\ ~IsRaised(res)
    /\ ~res.exists
    /\ res.confidence = 0

\* C29: the existence-only shortcut is selected by symbol == module at depth
\* 0 only. An absolute import with symbol == module is found exactly when the
\* module file or the package init exists inside the root, whatever the unit
\* holds; a relative import of depth 1 with symbol == module is found exactly
\* when the unit it targets binds the symbol.
C29_ShortcutSelection ==
    (/\ call.fn = "resolve_import"
     /\ ~IsRaised(res)
     /\ call.module # ""
     /\ call.symbol = call.module) =>
        LET file == CandidateFile(src_dir, call.module)
            init == CandidateInit(src_dir, call.module)
            unit == IF file # "ValueError" /\ exists(file) THEN file
                    ELSE IF exists(init) THEN init
                    ELSE None
        IN  /\ call.level = 0 => (res.exists <=> (Usable(file) \/ Usable(init)))
            /\ call.level = 1 =>
                   (res.exists <=> (unit # None /\ UnitBinds(unit, call.symbol)))

\* "from .m import m" was resolved from /p/r, where m.py exists and binds S
\* only: the unit was searched and m is not found
C29_Witness ==
    /\ call.fn = "resolve_import"
    /\ call.level = 1
    /\ call.module = "m"
    /\ call.symbol = "m"
    /\ UnitBinds(<<"p", "r", "m.py">>, "S")
    /\ ~UnitBinds(<<"p", "r", "m.py">>, "m")
    /\ ~IsRaised(res)
    /\ ~res.exists

(***************************************************************************)
(* Specification SpecCheck: a documentation file is put together block by  *)
(* block, the unit /p/r/m.py is written, package prefixes are given, and   *)
(* check is run once with --src /p/r.                                      *)
(***************************************************************************)
\* the code of the blocks:
\*   from m import S / from m import T as S
\*   def f(): from m import T / from m import Q
\*   import m as k, os.path
\*   from . import S / from .m import T
\*   from m.x import S / from mx import S
\*   from os import * / from os import path as p, sep
\*   text that is no Python, and a block without imports
BlockCodes ==
    { Source(<<ImportFromNode("m", <<Alias("S", None)>>, 0),
               ImportFromNode("m", <<Alias("T", "S")>>, 0)>>),
      Source(<<DefNode(<<ImportFromNode("m", <<Alias("T", None)>>, 0)>>),
               ImportFromNode("m", <<Alias("Q", None)>>, 0)>>),
      Source(<<ImportNode(<<Alias("m", "k"), Alias("os.path", None)>>)>>),
      Source(<<ImportFromNode(None, <<Alias("S", None)>>, 1),
               ImportFromNode("m", <<Alias("T", None)>>, 1)>>),
      Source(<<ImportFromNode("m.x", <<Alias("S", None)>>, 0),
               ImportFromNode("mx", <<Alias("S", None)>>, 0)>>),
      Source(<<ImportFromNode("os", <<Alias("*", None)>>, 0),
               ImportFromNode("os", <<Alias("path", "p"), Alias("sep", None)>>, 0)>>),
      Failure("SyntaxError"),
      Source(<<>>) }

\* the fenced blocks: each code tagged python, and one tagged Py, one js
FencedBlocks ==
    {[language |-> "python", code |-> code] : code \in BlockCodes}
    \cup {[language |-> "Py",
           code |-> Source(<<ImportFromNode("m", <<Alias("T", None)>>, 0)>>)],
          [language |-> "js",
           code |-> Source(<<ImportFromNode("m", <<Alias("T", None)>>, 0)>>)]}

\* the --package options tried
PackageOptions == { <<"m">>, <<"os">>, <<"os", "m">> }

\* what /p/r/m.py holds: the two texts of Texts, or an expression nested too
\* deep for the parser
ModuleTexts == Texts \cup { Failure("MemoryError") }

InitCheck ==
    /\ fs = [path \in FsPaths |-> IF path \in FixedDirs THEN Dir ELSE Absent]
    /\ src_dir = <<"p", "r">>
    /\ call = NoCall
    /\ res = NoRes
    /\ imports = <<>>
    /\ symbols = NotExtracted
    /\ doc = NoDoc
    /\ packages = <<>>
    /\ run = NoRun
    /\ markdown = <<>>
    /\ extracted = NotExtracted
    /\ walk = NoWalk

\* the documentation file is there: readable and still empty, or no UTF-8
OpenDoc ==
    /\ ~run.done
    /\ doc = NoDoc
    /\ \E status \in {"ok", "UnicodeDecodeError"} :
           doc' = [status |-> status, blocks |-> <<>>]
    /\ UNCHANGED <<fs, src_dir, call, res, imports, symbols, packages, run,
                 markdown, extracted, walk>>

\* one more fenced block of three lines, after a line of prose
AddBlock ==
    /\ ~run.done
    /\ doc.status = "ok"
    /\ Len(doc.blocks) < MaxBlocks
    /\ \E block \in FencedBlocks :
           doc' = [doc EXCEPT !.blocks =
                      Append(@, CodeBlock(block.language, block.code,
                                          5 * Len(doc.blocks) + 2,
                                          5 * Len(doc.blocks) + 4))]
    /\ UNCHANGED <<fs, src_dir, call, res, imports, symbols, packages, run,
                 markdown, extracted, walk>>

SetPackages ==
    /\ ~run.done
    /\ packages = <<>>
    /\ packages' \in PackageOptions
    /\ UNCHANGED <<fs, src_dir, call, res, imports, symbols, doc, run,
                 markdown, extracted, walk>>

WriteModule ==
    /\ ~run.done
    /\ \E text \in ModuleTexts :
           CanCreate(<<"p", "r", "m.py">>) /\ Create(<<"p", "r", "m.py">>, File(text))

Check ==
    /\ ~run.done
    /\ doc # NoDoc
    /\ \E json_output \in BOOLEAN :
           run' = check(doc, src_dir, json_output, packages)
    /\ UNCHANGED <<fs, src_dir, call, res, imports, symbols, doc, packages,
                 markdown, extracted, walk>>

NextCheck == OpenDoc \/ AddBlock \/ SetPackages \/ WriteModule \/ Check

SpecCheck == InitCheck /\ [][NextCheck]_vars

(***************************************************************************)
(* Properties of check, stated on the document, the options and what the   *)
(* run left.  What a document imports is read off its statements here,     *)
(* without parse_imports and extract_symbols.                              *)
(***************************************************************************)
Checked == run.done

\* the blocks tagged as Python
PythonBlocks ==
    SelectSeq(doc.blocks, LAMBDA block : block.language \in {"python", "Py"})

\* the ones among them that parse
ParsedBlocks == SelectSeq(PythonBlocks, LAMBDA block : block.code.status = "ok")

\* the names a statement imports, each with the module it is imported from
\* (itself, for "import name"), the depth, its alias and the block's line
ImportedNames(stmt, line) ==
    LET named == SelectSeq(stmt.names, LAMBDA alias : alias.name # "*") IN
    [i \in 1..Len(named) |->
        [module |-> IF stmt.kind = "Import" THEN named[i].name
                    ELSE IF stmt.module = None THEN ""
                    ELSE stmt.module,
         symbol |-> named[i].name,
         level |-> stmt.level,
         asname |-> named[i].asname,
         line |-> line]]

\* the names the statements import, in the order of the source text: a
\* function definition gives the names its body imports
RECURSIVE ImportedBy(_, _)
ImportedBy(stmts, line) ==
    IF stmts = <<>> THEN <<>>
    ELSE (IF Head(stmts).kind \in {"ImportFrom", "Import"}
              THEN ImportedNames(Head(stmts), line)
              ELSE ImportedBy(Head(stmts).body, line))
         \o ImportedBy(Tail(stmts), line)

ImportedInBlock(block) == ImportedBy(block.code.body, block.line_start)

\* every name the document imports, in the order of the document
Imported ==
    Flatten([k \in 1..Len(ParsedBlocks) |-> ImportedInBlock(ParsedBlocks[k])])

\* the module is one of the packages or lies below one
InPackages(module) ==
    \E i \in 1..Len(packages) :
        module = packages[i] \/ startswith(module, packages[i] \o ".")

Kept(ref) ==
    packages = <<>> \/ ref.level > 0 \/ ref.module = "" \/ InPackages(ref.module)

KeptRefs == SelectSeq(Imported, Kept)

\* the call of resolve_import is the one for the imported name
CallFor(c, ref) ==
    /\ c.module = ref.module
    /\ c.symbol = ref.symbol
    /\ c.level = ref.level
    /\ c.line = ref.line

\* the run came to its end: no exception ended it
Completed == Checked /\ run.error = None

\* how many calls of resolve_import were made for the imported name
CallsFor(ref) == Cardinality({i \in 1..Len(run.calls) : CallFor(run.calls[i], ref)})

\* how many times the kept imports hold the imported name
RefsLike(ref) == Cardinality({j \in 1..Len(KeptRefs) : CallFor(ref, KeptRefs[j])})

\* C11: resolution always targets the original name. Every call of
\* resolve_import is made with the original name of a kept import, no more
\* often than the document imports it, never with its alias; an alias the
\* reference carries is one the document gives to that name.
C11_OriginalNameResolved ==
    Checked =>
        /\ Len(run.calls) <= Len(KeptRefs)
        /\ \A i \in 1..Len(run.calls) :
               /\ 1 <= CallsFor(run.calls[i])
               /\ CallsFor(run.calls[i]) <= RefsLike(run.calls[i])
               /\ \/ run.calls[i].alias = None
                  \/ \E j \in 1..Len(Imported) :
                         /\ Imported[j].asname = run.calls[i].alias
                         /\ Imported[j].symbol = run.calls[i].symbol

\* "from m import T as S" was checked against an m.py that binds S and no T:
\* T was resolved, with alias S, and is missing
C11_Witness ==
    /\ Completed
    /\ UnitBinds(<<"p", "r", "m.py">>, "S")
    /\ \E i \in 1..Len(run.calls) :
           /\ run.calls[i].symbol = "T"
           /\ run.calls[i].alias = "S"
           /\ ~run.calls[i].resolution.exists

\* the entries of all_drifts the calls give: one per call that found nothing
DriftsOf(calls) ==
    LET missing == SelectSeq(calls, LAMBDA c : ~c.resolution.exists) IN
    [i \in 1..Len(missing) |->
        [symbol |-> missing[i].symbol, module |-> missing[i].module,
         line |-> missing[i].line, doc_file |-> DocFile]]

C17_PackageFilter ==
    (Completed /\ packages # <<>>) =>
        \A j \in 1..Len(Imported) :
            (\E i \in 1..Len(run.calls) : CallFor(run.calls[i], Imported[j]))
                <=> \/ Imported[j].level > 0
                    \/ Imported[j].module = ""
                    \/ InPackages(Imported[j].module)

\* with --package os, "from . import S" and "from .m import T" were resolved
\* and "from m.x import S", "from mx import S" were not
C17_Witness ==
    /\ Completed
    /\ packages = <<"os">>
    /\ Len(run.calls) = 2
    /\ run.calls[1].level = 1 /\ run.calls[1].module = ""
    /\ run.calls[2].level = 1 /\ run.calls[2].module = "m"
    /\ \E j \in 1..Len(Imported) : Imported[j].module = "m.x"
    /\ \E j \in 1..Len(Imported) : Imported[j].module = "mx"

\* an error occurred: the document could not be read, or a call of
\* resolve_import raised
Failed ==
    \/ doc.status # "ok"
    \/ \E i \in 1..Len(run.calls) : IsRaised(run.calls[i].resolution)

\* C18: exit status. 2 exactly when an error occurred; otherwise 1 exactly
\* when all_drifts is not empty and 0 when it is empty, which includes a
\* document without Python blocks; JSON is printed by a run with --json that
\* comes to its end over some Python block, and its drift_detected is true
\* exactly when the exit status is 1.
C18_ExitStatus ==
    Checked =>
        /\ run.exit = 2 <=> Failed
        /\ run.exit = 1 <=> (~Failed /\ run.drifts # <<>>)
        /\ run.exit = 0 <=> (~Failed /\ run.drifts = <<>>)
        /\ (doc.status = "ok" /\ PythonBlocks = <<>>) => run.exit = 0
        /\ run.printed # <<>> <=> (run.json_output /\ ~Failed /\ PythonBlocks # <<>>)
        /\ run.printed # <<>> =>
               /\ run.printed[1].drift_detected <=> (run.exit = 1)
               /\ run.printed[1].drifts = run.drifts

\* a run with --json that found a drift: exit status 1, drift_detected true
C18_Witness ==
    /\ Checked
    /\ run.json_output
    /\ run.exit = 1
    /\ run.printed # <<>>
    /\ run.printed[1].drift_detected
    /\ Len(run.drifts) >= 1

\* the blocks tagged as Python that do not parse
InvalidBlocks ==
    SelectSeq(PythonBlocks, LAMBDA block : block.code.status = "SyntaxError")

\* the line is the one of a block that does not parse
InvalidLine(line) ==
    \E k \in 1..Len(InvalidBlocks) : InvalidBlocks[k].line_start = line

\* C23: a code block that is not valid Python never aborts the run. No call
\* of resolve_import and no drift entry carries the line of such a block, the
\* run is never ended by its SyntaxError, and a run that comes to its end has
\* resolved every kept import of the other blocks, earlier and later, holds
\* their drift entries and takes its exit status from them.
C23_InvalidBlockSkipped ==
    (Checked /\ doc.status = "ok" /\ InvalidBlocks # <<>>) =>
        /\ \A i \in 1..Len(run.calls) : ~InvalidLine(run.calls[i].line)
        /\ \A i \in 1..Len(run.drifts) : ~InvalidLine(run.drifts[i].line)
        /\ run.error # "SyntaxError"
        /\ run.error # None =>
               \E i \in 1..Len(run.calls) : IsRaised(run.calls[i].resolution)
        /\ run.error = None =>
               /\ \A j \in 1..Len(KeptRefs) :
                      CallsFor(KeptRefs[j]) = RefsLike(KeptRefs[j])
               /\ run.drifts = DriftsOf(run.calls)
               /\ run.exit = (IF run.drifts # <<>> THEN 1 ELSE 0)

\* the first block is no Python and the second one imports a name that is
\* missing: the run came to its end with the drift of the second block
C23_Witness ==
    /\ Completed
    /\ Len(PythonBlocks) = 2
    /\ PythonBlocks[1].code.status = "SyntaxError"
    /\ run.drifts # <<>>
    /\ \A i \in 1..Len(run.drifts) : run.drifts[i].line = PythonBlocks[2].line_start
    /\ run.exit = 1

\* the kept imports that were resolved and not found, in the order of the
\* document, as entries of all_drifts
MissingInOrder ==
    LET missing ==
            SelectSeq(KeptRefs,
                LAMBDA ref : \E i \in 1..Len(run.calls) :
                    CallFor(run.calls[i], ref) /\ ~run.calls[i].resolution.exists)
    IN  [i \in 1..Len(missing) |->
            [symbol |-> missing[i].symbol, module |-> missing[i].module,
             line |-> missing[i].line, doc_file |-> DocFile]]

\* C26 (as claimed): drift report ordering. The drift entries of a run that
\* comes to its end are in the order of the blocks and, within a block, in the
\* source order of the import statements and of their names, imports nested
\* in function bodies included.
C26_DriftOrder == Completed => run.drifts = MissingInOrder

(***************************************************************************)
(* Specification SpecWalk: a tree is laid out as in Spec, with symbolic     *)
(* links that may lead back to an ancestor directory, and one directory    *)
(* search is made over it, one directory listing or unit visit per step.   *)
(***************************************************************************)
\* places where a directory may be, in os.scandir order
DirOrder == << <<"p">>, <<"p", "m">>, <<"p", "r">>, <<"p", "r", "m">> >>

\* the directories searched
WalkDirs == { <<>>, <<"p", "r">>, <<"p", "m">> }

\* rglob("*.py"), the entries named *.py directly in the directory
py_entries(dir) ==
    SelectSeq(FileOrder, LAMBDA f : parent(f) = dir /\ fs[f].type # "absent")

\* the subdirectories of a walk that follows symbolic links to directories
subdirectories_following_links(dir) ==
    LET below == SelectSeq(DirOrder, LAMBDA d : parent(d) = dir /\ is_dir(d))
    IN  [i \in 1..Len(below) |-> resolve(below[i])]

\* rglob("*.py"), the directories it descends into: entry.is_dir() and not
\* entry.is_symlink()
subdirectories(dir) ==
    SelectSeq(DirOrder, LAMBDA d : parent(d) = dir /\ fs[d].type = "dir")

\* the search under way: the directories still to list, the *.py entries of
\* the listed directory still to visit, and the directories listed and the
\* entries visited so far
Walking(symbol, dirs, files, listed, visited) ==
    [state |-> "walking", symbol |-> symbol, dirs |-> dirs, files |-> files,
     listed |-> listed, visited |-> visited]

\* the search has returned
Returning(listed, visited) ==
    [state |-> "done", symbol |-> None, dirs |-> <<>>, files |-> <<>>,
     listed |-> listed, visited |-> visited]

InitWalk ==
    /\ fs = [path \in FsPaths |-> IF path \in FixedDirs THEN Dir ELSE Absent]
    /\ src_dir = <<"p", "r">>
    /\ call = NoCall
    /\ res = NoRes
    /\ imports = <<>>
    /\ symbols = NotExtracted
    /\ doc = NoDoc
    /\ packages = <<>>
    /\ run = NoRun
    /\ markdown = <<>>
    /\ extracted = NotExtracted
    /\ walk = NoWalk

\* resolver.py:231-235: the call, its early return, the start of the loop
StartSearch ==
    \E dir \in WalkDirs :
        /\ call = NoCall
        /\ call' = [fn |-> "find_symbol_in_directory", module |-> None,
                    symbol |-> "S", level |-> 0, path |-> dir]
        /\ IF ~exists(dir) \/ ~is_dir(dir)
               THEN walk' = Returning(<<>>, <<>>) /\ res' = NotFound("S")
               ELSE /\ walk' = Walking("S", <<resolve(dir)>>, <<>>, <<>>, <<>>)
                    /\ UNCHANGED res
        /\ UNCHANGED <<fs, src_dir, imports, symbols, doc, packages, run,
                       markdown, extracted>>

\* the generator goes on to the next directory: its *.py entries are to be
\* visited, its subdirectories are listed after them
ListDirectory ==
    /\ walk.state = "walking"
    /\ walk.files = <<>>
    /\ walk.dirs # <<>>
    /\ Len(walk.listed) + Len(walk.visited) < MaxVisits
    /\ walk' = [walk EXCEPT !.files = py_entries(Head(walk.dirs)),
                            !.dirs = subdirectories(Head(walk.dirs)) \o Tail(walk.dirs),
                            !.listed = Append(@, Head(walk.dirs))]
    /\ UNCHANGED <<fs, src_dir, call, res, imports, symbols, doc, packages, run,
                   markdown, extracted>>

\* resolver.py:235-240, one pass of the loop body
VisitUnit ==
    /\ walk.state = "walking"
    /\ walk.files # <<>>
    /\ Len(walk.listed) + Len(walk.visited) < MaxVisits
    /\ LET py_file == Head(walk.files)
           visited == Append(walk.visited, py_file)
           result == find_symbol_in_file(walk.symbol, py_file)
           returns == /\ ~is_symlink(py_file)
                      /\ IF IsRaised(result) THEN TRUE ELSE result.exists
       IN  IF returns
               THEN walk' = Returning(walk.listed, visited) /\ res' = result
               ELSE /\ walk' = [walk EXCEPT !.files = Tail(@), !.visited = visited]
                    /\ UNCHANGED res
    /\ UNCHANGED <<fs, src_dir, call, imports, symbols, doc, packages, run,
                   markdown, extracted>>

\* resolver.py:242: the loop is over
EndSearch ==
    /\ walk.state = "walking"
    /\ walk.files = <<>>
    /\ walk.dirs = <<>>
    /\ walk' = Returning(walk.listed, walk.visited)
    /\ res' = NotFound(walk.symbol)
    /\ UNCHANGED <<fs, src_dir, call, imports, symbols, doc, packages, run,
                   markdown, extracted>>

SearchStep == ListDirectory \/ VisitUnit \/ EndSearch

NextWalk ==
    WriteText \/ Mkdir \/ SymlinkTo \/ StartSearch \/ ListDirectory \/ VisitUnit
        \/ EndSearch

SpecWalk == InitWalk /\ [][NextWalk]_vars

\* the entries of the tree named *.py, and its directories
UnitsOfTree == {f \in FileSlots : fs[f].type # "absent"}
DirsOfTree == {d \in FixedDirs \cup DirSlots : fs[d].type = "dir"}

NoRepeats(seq) == \A i, j \in 1..Len(seq) : seq[i] = seq[j] => i = j

\* no directory was listed twice and no entry visited twice, and no more of
\* them than the tree holds
VisitsBounded ==
    /\ NoRepeats(walk.listed)
    /\ NoRepeats(walk.visited)
    /\ Len(walk.listed) <= Cardinality(DirsOfTree)
    /\ Len(walk.visited) <= Cardinality(UnitsOfTree)

\* C27: the directory search always terminates. Whatever the tree, link
\* cycles included, no directory is listed twice and no unit visited twice,
\* listings and visits never outnumber the directories and units of the tree,
\* a search under way can always take its next step, and every step either
\* returns or adds one listing or one visit: a search returns after at most
\* as many steps as the tree holds directories and units, plus one.
C27_SearchTerminates ==
    /\ [](walk.state # "idle" => VisitsBounded)
    /\ [](walk.state = "walking" => ENABLED SearchStep)
    /\ [][walk.state = "walking" =>
              \/ walk'.state = "done"
              \/ Len(walk'.listed) + Len(walk'.visited)
                     = Len(walk.listed) + Len(walk.visited) + 1]_walk

\* /p/r/m is a symbolic link back to /p/r, /p/r was searched, and the search
\* returned after visiting a unit
C27_Witness ==
    /\ walk.state = "done"
    /\ call.path = <<"p", "r">>
    /\ fs[<<"p", "r", "m">>].type = "symlink"
    /\ fs[<<"p", "r", "m">>].target = <<"p", "r">>
    /\ Len(walk.listed) = 1
    /\ Len(walk.visited) >= 1

\* the stepwise search returns what find_symbol_in_directory gives
WalkAgrees ==
    walk.state = "done" => res = find_symbol_in_directory(call.symbol, call.path)

(***************************************************************************)
(* Specification SpecMarkdown: a markdown text is put together line by     *)
(* line and handed to extract_code_blocks.                                 *)
(***************************************************************************)
Fence == <<Backtick, Backtick, Backtick>>
Tildes == <<Tilde, Tilde, Tilde>>
Indent == Chars("  ")

\* the lines of the texts: fences of both types, with and without a language
\* tag, indented and followed by a blank, and a line of code
MarkdownLines ==
    { Fence \o Chars("python"), Fence, Fence \o Chars(" "),
      Tildes \o Chars("py"), Tildes,
      Indent \o Fence \o Chars("python"), Indent \o Fence,
      Chars("x = 1") }

InitMarkdown ==
    /\ fs = [path \in FsPaths |-> IF path \in FixedDirs THEN Dir ELSE Absent]
    /\ src_dir = <<"p", "r">>
    /\ call = NoCall
    /\ res = NoRes
    /\ imports = <<>>
    /\ symbols = NotExtracted
    /\ doc = NoDoc
    /\ packages = <<>>
    /\ run = NoRun
    /\ markdown = <<>>
    /\ extracted = NotExtracted
    /\ walk = NoWalk

AddLine ==
    /\ ~extracted.done
    /\ Len(markdown) < MaxLines
    /\ \E line \in MarkdownLines : markdown' = Append(markdown, line)
    /\ UNCHANGED <<fs, src_dir, call, res, imports, symbols, doc, packages, run,
                   extracted, walk>>

ExtractCodeBlocks ==
    /\ ~extracted.done
    /\ extracted' = [done |-> TRUE, list |-> extract_code_blocks(markdown)]
    /\ UNCHANGED <<fs, src_dir, call, res, imports, symbols, doc, packages, run,
                   markdown, walk>>

NextMarkdown == AddLine \/ ExtractCodeBlocks

SpecMarkdown == InitMarkdown /\ [][NextMarkdown]_vars

\* the line is plain text: it holds no fence character
PlainLine(line) ==
    \A k \in 1..Len(line) : line[k] \notin {Backtick, Tilde}

\* lines from..to of the text are all plain
PlainBetween(from, to) == \A k \in from..to : PlainLine(markdown[k])

\* the line with its leading blanks taken away
RECURSIVE Dedent(_)
Dedent(line) ==
    IF line # <<>> /\ Head(line) \in {" ", "\t"} THEN Dedent(Tail(line)) ELSE line

\* C22 (as claimed): indented fences. A block whose opening and closing fence
\* lines are indented, with plain text around and inside it, is extracted
\* with its language and its content.
C22_IndentedFences ==
    extracted.done =>
        \A i \in 1..Len(markdown) : \A j \in (i + 1)..Len(markdown) :
            (/\ Dedent(markdown[i]) = Fence \o Chars("python")
             /\ Dedent(markdown[j]) = Fence
             /\ Head(markdown[i]) = " "
             /\ Head(markdown[j]) = " "
             /\ PlainBetween(1, i - 1)
             /\ PlainBetween(i + 1, j - 1))
                => \E b \in 1..Len(extracted.list) :
                       /\ extracted.list[b].language = "python"
                       /\ extracted.list[b].line_start = i

\* the line starts with three fence characters of the type
StartsFence(line, type) ==
    Len(line) >= 3 /\ \A k \in 1..3 : line[k] = type[1]

\* the line is the type's fence followed by nothing but blanks
ClosesFence(line, type) ==
    StartsFence(line, type) /\ \A k \in 4..Len(line) : line[k] \in {" ", "\t"}

\* the line is inside some emitted block, fences included
Covered(i) ==
    \E b \in 1..Len(extracted.list) :
        extracted.list[b].line_start <= i /\ i <= extracted.list[b].line_end + 1

\* the line starts with a fence and is in no emitted block
Unpaired(i) ==
    /\ \E type \in {Fence, Tildes} : StartsFence(markdown[i], type)
    /\ ~Covered(i)

\* C30: fence pairing. Every emitted block runs from an opening fence to the
\* first later line that is the same fence type followed by blanks only, all
\* lines between being its content (fences of the other type and tagged fences
\* included); blocks are in document order, do not overlap and have
\* line_start <= line_end; the first opening fence outside every block is
\* never closed, and no block follows it.
C30_FencePairing ==
    extracted.done =>
        LET list == extracted.list IN
        /\ \A b \in 1..Len(list) :
               LET open == list[b].line_start
                   close == list[b].line_end + 1 IN
               /\ 1 <= open /\ open < close /\ close <= Len(markdown)
               /\ \E type \in {Fence, Tildes} :
                      /\ StartsFence(markdown[open], type)
                      /\ ClosesFence(markdown[close], type)
                      /\ \A k \in (open + 1)..(close - 1) :
                             ~ClosesFence(markdown[k], type)
               /\ list[b].code = join_lines(SubSeq(markdown, open + 1, close - 1))
               /\ b < Len(list) => close < list[b + 1].line_start
        /\ \A i \in 1..Len(markdown) :
               (/\ Unpaired(i)
                /\ \A k \in 1..(i - 1) : ~Unpaired(k))
                   => /\ \A k \in (i + 1)..Len(markdown) :
                             \A type \in {Fence, Tildes} :
                                 StartsFence(markdown[i], type)
                                     => ~ClosesFence(markdown[k], type)
                      /\ \A b \in 1..Len(list) : list[b].line_end < i

\* a backtick block holding a tilde fence and a tagged backtick fence as
\* content was extracted
C30_Witness ==
    /\ extracted.done
    /\ markdown = << Fence \o Chars("python"), Tildes, Fence \o Chars("python"),
                     Fence \o Chars(" ") >>
    /\ Len(extracted.list) = 1
    /\ extracted.list[1].line_start = 1
    /\ extracted.list[1].line_end = 3

====
